---------------------------- MODULE Spec2Model ----------------------------
(***************************************************************************)
(* Order aggregation and profit-waterfall engine of the profit app         *)
(* (app/routes/app._index.tsx).                                            *)
(*                                                                         *)
(* The module holds one state machine per part of the engine:              *)
(*   SpecFetch  the cursor-paginated order / refund fetch of `action`      *)
(*   SpecFetchLive  the same loops followed beyond MaxPages pages, with    *)
(*              the fairness of the runtime                                *)
(*   SpecDash   the dashboard's per-order totals (filtered / unfiltered)   *)
(*   SpecFold   the per-dimension folds (top products, product, product    *)
(*              type, vendor) with their per-key order counts              *)
(*   SpecShip   the profit-by-order shipping-cost resolver and the         *)
(*              shipping-cost uploads it reads                             *)
(*   SpecFees   the profit-by-order transaction fee and its settings       *)
(*   SpecAgg    the dashboard's buckets, customers and payload, the P&L    *)
(*              periods and the profit-by-order rows                       *)
(*   SpecNum    one weekly bucket and its row in IEEE 754 doubles          *)
(*   SpecInv    two invocations of the dashboard branch in flight          *)
(*   SpecPl     the period rows PLReport renders from a pl payload         *)
(*   SpecIndex  the dashboard's selection, its two fetchers and the lift   *)
(* Money is kept in integer cents; a JS number that is the result of a     *)
(* division is kept as an exact fraction [num, den].  SpecNum alone keeps  *)
(* the numbers as the doubles the program computes with.                   *)
(***************************************************************************)
EXTENDS Integers, Sequences, FiniteSets, TLC

VARIABLES
    \* ---- action(): one invocation of the route's action -----------------
    pc,                  \* where the invocation stands
    actionType,          \* formData.get("actionType")
    allOrders,           \* let allOrders: any[]
    hasNextPage,         \* let hasNextPage
    cursor,              \* let cursor: string | null
    totalRefunds,        \* let totalRefunds
    refundsHasNextPage,  \* let refundsHasNextPage
    refundsCursor,       \* let refundsCursor
    aggInput,            \* the order list the aggregation loops ran over
    response,            \* what the invocation answered with
    requests,            \* history: the cursor of every order-page request
    pages,               \* history: every order page received
    refundRequests,      \* history: the cursor of every refund-page request
    refundPages,         \* history: every refund page received
    \* ---- action(), dashboard branch: the totals of one order -------------
    productId,           \* formData.get("productId")
    productType,         \* formData.get("productType")
    dashOrder,           \* the order (edge.node) the loop body ran on
    dashTotals,          \* its grossRevenue, discounts, shippingRevenue, itemCount
    \* ---- action(): the per-dimension folds --------------------------------
    foldReport,          \* which fold: topProducts, profitByProduct, ...
    productTypeFilter,   \* formData.get("productType") of profitByProduct
    productTagFilter,    \* formData.get("productTag") of profitByProduct
    statData,            \* productStats / productData / productTypeData / vendorData
    orderKeyIds,         \* orderProductIds / orderTypeIds / orderVendorIds
    foldedKeys,          \* history: per folded order, the keys of its line items
    \* ---- Index / ManageCostsTab / ProfitByOrderReport: shipping cost ------
    shippingCostData,    \* the uploaded overrides, ShippingCostEntry[]
    shippingSettings,    \* method, flatRate, perItemRate
    orderData,           \* the rows of the loaded profit-by-order report
    enrichedData,        \* per row, the shippingCost and shippingSource rendered
    \* ---- Index / ManageCostsTab / ProfitByOrderReport: transaction fees ---
    transactionFeeSettings, \* rates, fixed fees, surcharge, gateways
    feeOrder,            \* the row the report renders: netRevenue, paymentGateway
    transactionFees,     \* the fee rendered for it
    \* ---- action() (dashboard, pl): buckets, customers and the payload -----
    aggReport,           \* the branch of action(): dashboard or pl
    groupBy,             \* formData.get("groupBy") of a pl request
    periodData,          \* Map period key -> accumulators of the pl branch
    plData,              \* the rows of the pl payload
    orderReport,         \* the rows of the profitByOrder payload
    now,                 \* new Date() of the invocation
    aggOrders,           \* the orders of allOrders the main loop has passed
    weeklyData,          \* Map week -> accumulators, seeded 1..maxWeek
    dailyData,           \* Map day key -> accumulators
    monthlyData,         \* Map month key -> accumulators
    quarterlyData,       \* Map quarter key -> accumulators
    ltvData,             \* the LTV buckets kept (computed, not sent)
    dashboardPayload,    \* the json() payload of the dashboard
    \* ---- the weekly bucket and its row in the program's own numbers -------
    numOrders,           \* the orders of one week the main loop has passed
    numBucket,           \* weeklyData.get(week): doubles and a count
    numRow,              \* its chartData row, the amounts in cents
    \* ---- two invocations of action() (dashboard) in flight ----------------
    orderFeed,           \* what the shop returns: query -> pages of orders
    invQuery,            \* the date range each invocation asks for
    invPc,               \* where each invocation stands
    invAllOrders,        \* allOrders of each invocation
    invHasNextPage,      \* hasNextPage of each invocation
    invCursor,           \* cursor of each invocation (pages received)
    invResponse,         \* the payload each invocation returned
    invOverlap,          \* whether a step was taken while the other ran
    \* ---- PLReport: the rows rendered from a pl payload --------------------
    plFetcher,           \* fetcher.data: the pl payload, plData and totalRefunds
    plEnrichedData,      \* enrichedData: the rows as rendered
    \* ---- Index: the dashboard's two fetchers and the selection -----------
    selectedProduct,     \* useState("all"): the product filter
    selectedStartDate,   \* useState: startDate of the dashboard
    selectedEndDate,     \* useState: endDate of the dashboard
    dashboardFetcher,    \* useFetcher: state, submission in flight, data
    comparisonFetcher    \* useFetcher: the same for the prior-year request

fetchVars == <<pc, actionType, allOrders, hasNextPage, cursor, totalRefunds,
               refundsHasNextPage, refundsCursor, aggInput, response,
               requests, pages, refundRequests, refundPages>>

dashVars == <<productId, productType, dashOrder, dashTotals>>

foldVars == <<foldReport, productTypeFilter, productTagFilter, statData,
              orderKeyIds, foldedKeys>>

shipVars == <<shippingCostData, shippingSettings, orderData, enrichedData>>

feeVars == <<transactionFeeSettings, feeOrder, transactionFees>>

aggVars == <<aggReport, groupBy, periodData, plData, orderReport, now, aggOrders, weeklyData,
             dailyData, monthlyData, quarterlyData, ltvData, dashboardPayload>>

numVars == <<numOrders, numBucket, numRow>>

invVars == <<orderFeed, invQuery, invPc, invAllOrders, invHasNextPage, invCursor,
             invResponse, invOverlap>>

plReportVars == <<plFetcher, plEnrichedData>>

indexVars == <<selectedProduct, selectedStartDate, selectedEndDate, dashboardFetcher,
               comparisonFetcher>>

vars == <<fetchVars, dashVars, foldVars, shipVars, feeVars, aggVars, numVars, invVars,
          plReportVars, indexVars>>

\* what the steps of one part leave alone
notFetchVars == <<dashVars, foldVars, shipVars, feeVars, aggVars, numVars, invVars,
    plReportVars, indexVars>>
notDashVars == <<fetchVars, foldVars, shipVars, feeVars, aggVars, numVars, invVars,
    plReportVars, indexVars>>
notFoldVars == <<fetchVars, dashVars, shipVars, feeVars, aggVars, numVars, invVars,
    plReportVars, indexVars>>
notShipVars == <<fetchVars, dashVars, foldVars, feeVars, aggVars, numVars, invVars,
    plReportVars, indexVars>>
notFeeVars == <<fetchVars, dashVars, foldVars, shipVars, aggVars, numVars, invVars,
    plReportVars, indexVars>>
notAggVars == <<fetchVars, foldVars, shipVars, feeVars, numVars, invVars,
    plReportVars, indexVars>>
notNumVars == <<fetchVars, dashVars, foldVars, shipVars, feeVars, aggVars, invVars,
    plReportVars, indexVars>>
notInvVars == <<fetchVars, dashVars, foldVars, shipVars, feeVars, aggVars, numVars,
    plReportVars, indexVars>>
notPlReportVars == <<fetchVars, dashVars, foldVars, shipVars, feeVars, aggVars, numVars,
    invVars, indexVars>>
notIndexVars == <<fetchVars, dashVars, foldVars, shipVars, feeVars, aggVars, numVars,
    invVars, plReportVars>>

-----------------------------------------------------------------------------
(* Bounds of the model *)

\* the order feed and the refund feed serve at most this many pages
MaxPages == 3
\* an order page holds at most this many orders
MaxPerPage == 2
\* an order holds at most this many line items
MaxLineItems == 2
\* a fold runs over at most this many orders
MaxOrders == 2
\* the override list holds at most this many entries
MaxEntries == 2
\* at most this many period rows in a pl payload
MaxPeriods == 3

-----------------------------------------------------------------------------
(* JS values *)

\* null (a cursor is a positive number, the null cursor is 0)
Null == 0
\* "no value yet" (nothing aggregated, nothing answered) and "the value x"
None == <<>>
Some(x) == <<x>>

\* x || null, x a cursor (0 stands for null and for undefined)
OrNull(x) == IF x = 0 THEN Null ELSE x

\* undefined / a missing field, and the null of formData.get
Undefined == "undefined"
NullStr == "null"
\* truthiness of a string-valued field
Truthy(x) == x \notin {Undefined, NullStr, ""}

RECURSIVE GCD(_, _)
GCD(a, b) == IF b = 0 THEN a ELSE GCD(b, a % b)

\* The number n / d (d > 0), in lowest terms.
Frac(n, d) ==
    LET g == GCD(IF n < 0 THEN -n ELSE n, d)
    IN [num |-> n \div g, den |-> d \div g]
\* a + b, a * b, a <= b on such numbers
FracAdd(a, b) == Frac(a.num * b.den + b.num * a.den, a.den * b.den)
FracMul(a, b) == Frac(a.num * b.num, a.den * b.den)
FracLe(a, b) == a.num * b.den <= b.num * a.den
\* the integer n (an amount in cents, a count)
Num(n) == [num |-> n, den |-> 1]

RECURSIVE SumSeq(_)
\* reduce((sum, x) => sum + x, 0)
SumSeq(s) == IF s = <<>> THEN 0 ELSE Head(s) + SumSeq(Tail(s))

-----------------------------------------------------------------------------
(* The report request and the feeds *)

ReportTypes == {"dashboard", "pl", "profitByChannel", "profitByOrder",
                "profitByProduct", "profitByProductType", "profitBySKU",
                "profitByVendor"}

\* the report types whose action also pages through the refund feed
RefundReports == {"dashboard", "pl"}

\* the request's window, as day numbers: startDate, endDate (inclusive)
startDate == 2
endDate == 3
\* endDatePlusOne.setDate(getDate() + 1)
endDateExclusive == endDate + 1

\* the j-th order page when it holds k orders: the orders are numbered in
\* the feed's (creation-time) order
PageEdges(j, k) == [i \in 1..k |-> (j - 1) * MaxPerPage + i]

\* A body without data.orders: edges and pageInfo are absent.
MalformedPage == [ok |-> FALSE, edges |-> <<>>, hasNextPage |-> FALSE, endCursor |-> Null]

\* The bodies the order feed can answer the j-th request with.  A page that
\* has orders carries an end cursor; only such a page can announce a next one.
OrderPages(j) ==
    ({[ok |-> TRUE, edges |-> PageEdges(j, k), hasNextPage |-> h,
       endCursor |-> IF k = 0 THEN Null ELSE j] :
         k \in 0..MaxPerPage, h \in BOOLEAN}
     \ {[ok |-> TRUE, edges |-> <<>>, hasNextPage |-> TRUE, endCursor |-> Null]})
    \cup {MalformedPage}

\* A refund: totalRefundedSet.shopMoney.amount (cents) and the day of createdAt
Refund(a, d) == [amount |-> a, createdAt |-> d]

\* The refunded orders a refund page can hold: each order is its refunds.
RefundEdgeChoices ==
    { <<>>,
      << <<Refund(250, startDate)>> >>,
      << <<Refund(400, endDate), Refund(100, endDateExclusive)>> >>,
      << <<Refund(700, startDate - 1)>>, <<>> >> }

RefundFeedPages(j) ==
    ({[ok |-> TRUE, edges |-> e, hasNextPage |-> h,
       endCursor |-> IF e = <<>> THEN Null ELSE j] :
         e \in RefundEdgeChoices, h \in BOOLEAN}
     \ {[ok |-> TRUE, edges |-> <<>>, hasNextPage |-> TRUE, endCursor |-> Null]})
    \cup {MalformedPage}

-----------------------------------------------------------------------------
(* action(), dashboard branch: the totals of one order (lines 267-328) *)

\* lineItem.product: id and productType (P2 is of another type than P1)
NoProduct == [id |-> Undefined, productType |-> Undefined]
Products == {NoProduct,
             [id |-> "P1", productType |-> "T1"],
             [id |-> "P2", productType |-> "T2"]}

\* originalTotalSet, totalDiscountSet (cents) and quantity of a line item
LineItems ==
    [product : Products, quantity : {2}, originalTotal : {4000, 6000},
     totalDiscount : {0, 1000}]

LineItemLists == UNION {[1..n -> LineItems] : n \in 0..MaxLineItems}

\* subtotalPriceSet, totalDiscountsSet, totalShippingPriceSet (cents)
DashOrders ==
    [subtotal : {0, 9000}, totalDiscounts : {0, 1000}, totalShipping : {500},
     lineItems : LineItemLists]

\* the productId / productType filters a dashboard request can carry
DashFilters ==
    {<<NullStr, NullStr>>, <<"all", "all">>, <<"P1", "all">>, <<"all", "T1">>,
     <<"P1", "T2">>}

\* productId && productId !== "all"
HasFilter(f) == Truthy(f) /\ f # "all"

\* !hasProductFilter || lineItem.product?.id === productId, and the same for
\* the product type
Matches(lineItem, pid, ptype) ==
    /\ (~HasFilter(pid) \/ lineItem.product.id = pid)
    /\ (~HasFilter(ptype) \/ lineItem.product.productType = ptype)

\* a proration by the item's share of the discounted subtotal
ProrateBySubtotal(orderTotalDiscount, lineItemOriginalTotal, orderSubtotal) ==
    FracMul(Num(orderTotalDiscount), Frac(lineItemOriginalTotal, orderSubtotal))

\* orderTotalDiscount * (lineItemOriginalTotal / (orderSubtotal + orderTotalDiscount))
Prorate(orderTotalDiscount, lineItemOriginalTotal, orderSubtotal) ==
    FracMul(Num(orderTotalDiscount),
            Frac(lineItemOriginalTotal, orderSubtotal + orderTotalDiscount))

\* a discount rule without the single-line-item case
LineItemDiscountAlwaysProrated(lineItem, order) ==
    IF lineItem.totalDiscount > 0 THEN Num(lineItem.totalDiscount)
    ELSE IF order.totalDiscounts > 0 /\ order.subtotal > 0
         THEN Prorate(order.totalDiscounts, lineItem.originalTotal, order.subtotal)
         ELSE Num(0)

\* what `discounts +=` adds for a matching line item (lines 306-317)
LineItemDiscount(lineItem, order) ==
    IF lineItem.totalDiscount > 0 THEN Num(lineItem.totalDiscount)
    ELSE IF order.totalDiscounts > 0 /\ order.subtotal > 0
         THEN IF Len(order.lineItems) = 1
              THEN Num(order.totalDiscounts)
              ELSE Prorate(order.totalDiscounts, lineItem.originalTotal,
                           order.subtotal)
         ELSE Num(0)

RECURSIVE FilteredTotals(_, _, _, _)
\* for (const lineItemEdge of order.lineItems.edges): the filtered branch
FilteredTotals(items, order, pid, ptype) ==
    IF items = <<>>
    THEN [grossRevenue |-> 0, discounts |-> Num(0), shippingRevenue |-> 0,
          itemCount |-> 0]
    ELSE LET lineItem == Head(items)
             rest == FilteredTotals(Tail(items), order, pid, ptype)
         IN IF Matches(lineItem, pid, ptype)
            THEN [grossRevenue |-> lineItem.originalTotal + rest.grossRevenue,
                  discounts |-> FracAdd(LineItemDiscount(lineItem, order),
                                        rest.discounts),
                  shippingRevenue |-> 0,
                  itemCount |-> lineItem.quantity + rest.itemCount]
            ELSE rest

\* the else branch: the order-level totals
UnfilteredTotals(order) ==
    [grossRevenue |-> order.subtotal + order.totalDiscounts,
     discounts |-> Num(order.totalDiscounts),
     shippingRevenue |-> order.totalShipping,
     itemCount |-> SumSeq([i \in 1..Len(order.lineItems) |->
                              order.lineItems[i].quantity])]

\* if (hasProductFilter || hasProductTypeFilter) { ... } else { ... }
OrderTotals(order, pid, ptype) ==
    IF HasFilter(pid) \/ HasFilter(ptype)
    THEN FilteredTotals(order.lineItems, order, pid, ptype)
    ELSE UnfilteredTotals(order)

DashIdle ==
    /\ productId = NullStr
    /\ productType = NullStr
    /\ dashOrder = None
    /\ dashTotals = None

\* a dashboard request arrives with its filters
DashInit ==
    /\ \E f \in DashFilters : productId = f[1] /\ productType = f[2]
    /\ dashOrder = None
    /\ dashTotals = None

\* one pass of `for (const edge of allOrders)` up to line 328
DashOrderTotals(order) ==
    /\ dashOrder = None
    /\ dashOrder' = Some(order)
    /\ dashTotals' = Some(OrderTotals(order, productId, productType))
    /\ UNCHANGED <<productId, productType>>
    /\ UNCHANGED notDashVars

DashNext == \E order \in DashOrders : DashOrderTotals(order)

-----------------------------------------------------------------------------
(* action(): the folds by product, product type and vendor, and the        *)
(* dashboard's top products                                                *)

FoldReports == {"topProducts", "profitByProduct", "profitByProductType",
                "profitByVendor"}

\* lineItem.product with its productType, vendor and tags; P3 has neither a
\* product type nor a vendor
FoldNoProduct ==
    [id |-> Undefined, productType |-> Undefined, vendor |-> Undefined, tags |-> {}]
FoldProducts ==
    {FoldNoProduct,
     [id |-> "P1", productType |-> "T1", vendor |-> "V1", tags |-> {"sale"}],
     [id |-> "P2", productType |-> "T1", vendor |-> "V2", tags |-> {}],
     [id |-> "P3", productType |-> Undefined, vendor |-> Undefined, tags |-> {"sale"}]}

FoldLineItems ==
    {[product |-> p, quantity |-> 1, originalTotal |-> 4000, totalDiscount |-> 500] :
        p \in FoldProducts}

FoldOrders == UNION {[1..n -> FoldLineItems] : n \in 0..MaxLineItems}

\* the filters a profitByProduct request can carry
FoldFilters == {<<NullStr, NullStr>>, <<"all", "all">>, <<"T1", "all">>,
                <<"all", "sale">>, <<"T1", "sale">>}

\* x || ""
OrEmpty(x) == IF Truthy(x) THEN x ELSE ""

\* a Map: get with a default, set
EmptyMap == [k \in {} |-> 0]
MapGet(m, k, default) == IF k \in DOMAIN m THEN m[k] ELSE default
MapSet(m, k, v) == [x \in DOMAIN m \cup {k} |-> IF x = k THEN v ELSE m[x]]

\* the dimension key of a line item in a report
KeyOf(report, lineItem) ==
    CASE report = "profitByProductType" -> OrEmpty(lineItem.product.productType)
      [] report = "profitByVendor" -> OrEmpty(lineItem.product.vendor)
      [] OTHER -> lineItem.product.id

\* the line item reaches the accumulation: it passes the filters of
\* profitByProduct (the two `continue`s) and, in the two folds by product,
\* has a product id (if (productId))
Folded(report, lineItem, typeFilter, tagFilter) ==
    /\ report = "profitByProduct" =>
          /\ ~(HasFilter(typeFilter)
                /\ OrEmpty(lineItem.product.productType) # typeFilter)
          /\ ~(HasFilter(tagFilter) /\ tagFilter \notin lineItem.product.tags)
    /\ report \in {"topProducts", "profitByProduct"} =>
          Truthy(lineItem.product.id)

\* the row a key starts with: the two folds by product keep an itemCount, the
\* folds by product type and by vendor keep the Set of product ids
NewStat(report) ==
    IF report \in {"topProducts", "profitByProduct"}
    THEN [grossRevenue |-> 0, discounts |-> 0, orderCount |-> 0, itemCount |-> 0]
    ELSE [grossRevenue |-> 0, discounts |-> 0, orderCount |-> 0, products |-> {}]

\* existing.grossRevenue += ...; existing.discounts += ...; and the item count
\* or the product set
Accumulate(report, existing, lineItem) ==
    LET sums == [existing EXCEPT
                    !.grossRevenue = @ + lineItem.originalTotal,
                    !.discounts = @ + lineItem.totalDiscount]
    IN IF report \in {"topProducts", "profitByProduct"}
       THEN [sums EXCEPT !.itemCount = @ + lineItem.quantity]
       ELSE IF Truthy(lineItem.product.id)
            THEN [sums EXCEPT !.products = @ \cup {lineItem.product.id}]
            ELSE sums

\* a count of the order for every line item of the key
CountOrderPerLineItem(existing, alreadyCounted) ==
    [existing EXCEPT !.orderCount = @ + 1]

\* if (!...has(...)) existing.orderCount += 1
CountOrder(existing, alreadyCounted) ==
    IF alreadyCounted THEN existing ELSE [existing EXCEPT !.orderCount = @ + 1]

RECURSIVE FoldTopProducts(_, _, _)
\* the dashboard's top products: orderProductIds is a Set of the product ids
\* seen in this order
FoldTopProducts(items, data, orderProductIds) ==
    IF items = <<>> THEN data
    ELSE LET lineItem == Head(items)
             key == KeyOf("topProducts", lineItem)
             existing == MapGet(data, key, NewStat("topProducts"))
         IN IF Folded("topProducts", lineItem, NullStr, NullStr)
            THEN FoldTopProducts(Tail(items),
                     MapSet(data, key,
                            CountOrder(Accumulate("topProducts", existing, lineItem),
                                       key \in orderProductIds)),
                     orderProductIds \cup {key})
            ELSE FoldTopProducts(Tail(items), data, orderProductIds)

RECURSIVE FoldDimension(_, _, _, _, _, _)
\* profitByProduct / profitByProductType / profitByVendor: ids is a Map from
\* the key to the Set of the order ids counted for it.  The result is the
\* pair of the two maps.
FoldDimension(items, orderId, report, filters, data, ids) ==
    IF items = <<>> THEN <<data, ids>>
    ELSE LET lineItem == Head(items)
             key == KeyOf(report, lineItem)
             existing == MapGet(data, key, NewStat(report))
             counted == MapGet(ids, key, {})
         IN IF Folded(report, lineItem, filters[1], filters[2])
            THEN FoldDimension(Tail(items), orderId, report, filters,
                     MapSet(data, key,
                            CountOrder(Accumulate(report, existing, lineItem),
                                       orderId \in counted)),
                     MapSet(ids, key, counted \cup {orderId}))
            ELSE FoldDimension(Tail(items), orderId, report, filters, data, ids)

\* the keys of the line items of an order that reach the accumulation
KeysOfOrder(order, report, typeFilter, tagFilter) ==
    {KeyOf(report, order[i]) :
        i \in {j \in 1..Len(order) :
                  Folded(report, order[j], typeFilter, tagFilter)}}

FoldIdle ==
    /\ foldReport = "none"
    /\ productTypeFilter = NullStr
    /\ productTagFilter = NullStr
    /\ statData = EmptyMap
    /\ orderKeyIds = EmptyMap
    /\ foldedKeys = <<>>

\* the request of a report, its maps still empty
FoldInit ==
    /\ foldReport \in FoldReports
    /\ \E f \in FoldFilters :
          /\ foldReport # "profitByProduct" => f = <<NullStr, NullStr>>
          /\ productTypeFilter = f[1]
          /\ productTagFilter = f[2]
    /\ statData = EmptyMap
    /\ orderKeyIds = EmptyMap
    /\ foldedKeys = <<>>

\* one pass of `for (const edge of allOrders)`: the order's line items are
\* folded; the order's id is its place in the feed
FoldOrder(order) ==
    /\ Len(foldedKeys) < MaxOrders
    /\ LET orderId == Len(foldedKeys) + 1
           filters == <<productTypeFilter, productTagFilter>>
       IN IF foldReport = "topProducts"
          THEN /\ statData' = FoldTopProducts(order, statData, {})
               /\ UNCHANGED orderKeyIds
          ELSE LET r == FoldDimension(order, orderId, foldReport, filters,
                                      statData, orderKeyIds)
               IN /\ statData' = r[1]
                  /\ orderKeyIds' = r[2]
    /\ foldedKeys' = Append(foldedKeys,
                            KeysOfOrder(order, foldReport, productTypeFilter,
                                        productTagFilter))
    /\ UNCHANGED <<foldReport, productTypeFilter, productTagFilter>>
    /\ UNCHANGED notFoldVars

FoldNext == \E order \in FoldOrders : FoldOrder(order)

-----------------------------------------------------------------------------
(* ManageCostsTab and ProfitByOrderReport: the shipping cost of an order   *)
(* Strings are sequences of characters.                                    *)

\* s.replace(/^#/, '')
StripHash(s) == IF s # <<>> /\ Head(s) = "#" THEN Tail(s) ELSE s

RECURSIVE TrimStart(_)
TrimStart(s) == IF s # <<>> /\ Head(s) = " " THEN TrimStart(Tail(s)) ELSE s

RECURSIVE TrimEnd(_)
TrimEnd(s) ==
    IF s # <<>> /\ s[Len(s)] = " " THEN TrimEnd(SubSeq(s, 1, Len(s) - 1)) ELSE s

\* s.trim()
Trim(s) == TrimEnd(TrimStart(s))

\* s.replace(/"/g, '')
RemoveQuotes(s) == SelectSeq(s, LAMBDA c : c # "\"")

\* order numbers, and the identifiers that name them: with or without the '#'
OrderNumbers == {<<"7">>, <<"1", "7">>}
OrderIdentifiers == OrderNumbers \cup {<<"#">> \o n : n \in OrderNumbers}

\* a cell of the CSV file: the identifier bare, padded with blanks, or quoted
CsvCells ==
    OrderIdentifiers
      \cup {<<" ">> \o k \o <<" ">> : k \in OrderIdentifiers}
      \cup {<<"\"">> \o k \o <<"\"">> : k \in OrderIdentifiers}

\* the shipping_cost cell after parseFloat: a number, or None for an empty
\* or non-numeric cell
CsvCosts == {None, Some(0), Some(300)}

\* order.shippingLineCost: undefined, null or a number
JsUndefined == [kind |-> "undefined", value |-> 0]
JsNull == [kind |-> "null", value |-> 0]
JsNumber(n) == [kind |-> "number", value |-> n]
ShippingLineCosts == {JsUndefined, JsNull, JsNumber(0), JsNumber(700)}

ItemCounts == {0, 3}

\* the rows getShippingCost is applied to
OrderRows ==
    [orderName : OrderIdentifiers, itemCount : ItemCounts,
     shippingLineCost : ShippingLineCosts]

ShippingMethods == {"flat", "per-item", "none"}

\* a || b on the results of Map.get: undefined and 0 are falsy
OrElse(a, b) == IF a # None /\ a[1] # 0 THEN a ELSE b

\* Map.get: None for undefined
MapLookup(m, k) == IF k \in DOMAIN m THEN Some(m[k]) ELSE None

RECURSIVE CsvShippingCostMapFrom(_, _)
\* shippingCostData.forEach(e => ...): the original key, the normalized key
\* and '#' + the normalized key
CsvShippingCostMapFrom(entries, m) ==
    IF entries = <<>> THEN m
    ELSE LET e == Head(entries)
             normalized == Trim(StripHash(e.orderId))
         IN CsvShippingCostMapFrom(Tail(entries),
                MapSet(MapSet(MapSet(m, e.orderId, e.shippingCost),
                              normalized, e.shippingCost),
                       <<"#">> \o normalized, e.shippingCost))

csvShippingCostMap(entries) == CsvShippingCostMapFrom(entries, EmptyMap)

\* a test of the looked-up cost by truthiness
CsvCostTruthy(csvCost) == csvCost # None /\ csvCost[1] # 0

\* csvCost !== undefined
CsvCostFound(csvCost) == csvCost # None

\* order.shippingLineCost !== undefined && ... !== null && ... > 0
HasShippingLineCost(order) ==
    /\ order.shippingLineCost.kind = "number"
    /\ order.shippingLineCost.value > 0

\* the three lookups of priority 2
CsvCostOf(order, entries) ==
    LET orderName == order.orderName
        normalizedOrderName == Trim(StripHash(orderName))
        m == csvShippingCostMap(entries)
    IN OrElse(MapLookup(m, orderName),
              OrElse(MapLookup(m, normalizedOrderName),
                     MapLookup(m, <<"#">> \o normalizedOrderName)))

\* priority 3 and the end of getShippingCost
Estimate(order, settings) ==
    IF settings.method = "flat"
    THEN [cost |-> settings.flatRate, source |-> "estimate"]
    ELSE IF settings.method = "per-item"
    THEN LET itemCount == IF order.itemCount # 0 THEN order.itemCount ELSE 1
         IN [cost |-> settings.perItemRate * itemCount, source |-> "estimate"]
    ELSE [cost |-> 0, source |-> "none"]

\* a resolver that asks the uploaded overrides first
getShippingCostCsvFirst(order, entries, settings) ==
    LET csvCost == CsvCostOf(order, entries)
    IN IF CsvCostFound(csvCost) THEN [cost |-> csvCost[1], source |-> "csv"]
       ELSE IF HasShippingLineCost(order)
       THEN [cost |-> order.shippingLineCost.value, source |-> "shopify"]
       ELSE Estimate(order, settings)

getShippingCost(order, entries, settings) ==
    IF HasShippingLineCost(order)
    THEN [cost |-> order.shippingLineCost.value, source |-> "shopify"]
    ELSE LET csvCost == CsvCostOf(order, entries)
         IN IF CsvCostFound(csvCost)
            THEN [cost |-> csvCost[1], source |-> "csv"]
            ELSE Estimate(order, settings)

\* enrichedData = orderData.map(...), as every render computes it
Enriched(rows, entries, settings) ==
    IF rows = <<>> THEN <<>>
    ELSE [i \in 1..Len(rows) |->
            LET r == getShippingCost(rows[i], entries, settings)
            IN [shippingCost |-> r.cost, shippingSource |-> r.source]]

\* updatedData.findIndex(e => e.orderId === entry.orderId), 0 for -1
FindIndex(entries, orderId) ==
    IF \E i \in 1..Len(entries) : entries[i].orderId = orderId
    THEN CHOOSE i \in 1..Len(entries) :
            /\ entries[i].orderId = orderId
            /\ \A j \in 1..(i - 1) : entries[j].orderId # orderId
    ELSE 0

\* the merge of one parsed row into the list
Merge(entries, entry) ==
    LET existingIndex == FindIndex(entries, entry.orderId)
    IN IF existingIndex # 0
       THEN [entries EXCEPT ![existingIndex] = entry]
       ELSE Append(entries, entry)

\* useState: flat, 5.00 per order, 2.00 per item, no overrides, no report
ShipInit ==
    /\ shippingCostData = <<>>
    /\ shippingSettings = [method |-> "flat", flatRate |-> 500, perItemRate |-> 200]
    /\ orderData = <<>>
    /\ enrichedData = <<>>

\* handleShippingCsvUpload of a file with the header and one data row: the
\* cells are trimmed and unquoted, a row without a cost is skipped (and the
\* file then has no valid row), the entry is merged by its exact orderId
HandleShippingCsvUpload(cell, parsedCost) ==
    LET orderId == RemoveQuotes(Trim(cell))
    IN /\ IF parsedCost = None
          THEN UNCHANGED shippingCostData
          ELSE /\ Len(Merge(shippingCostData,
                            [orderId |-> orderId, shippingCost |-> parsedCost[1]]))
                    <= MaxEntries
               /\ shippingCostData' =
                    Merge(shippingCostData,
                          [orderId |-> orderId, shippingCost |-> parsedCost[1]])
       /\ enrichedData' = Enriched(orderData, shippingCostData', shippingSettings)
       /\ UNCHANGED <<shippingSettings, orderData>>
       /\ UNCHANGED notShipVars

\* the Remove button of an entry
RemoveShippingCost(i) ==
    /\ i \in 1..Len(shippingCostData)
    /\ shippingCostData' =
          SelectSeq(shippingCostData,
                    LAMBDA e : e.orderId # shippingCostData[i].orderId)
    /\ enrichedData' = Enriched(orderData, shippingCostData', shippingSettings)
    /\ UNCHANGED <<shippingSettings, orderData>>
    /\ UNCHANGED notShipVars

\* the Clear All button, shown when the list is not empty
ClearShippingCosts ==
    /\ Len(shippingCostData) > 0
    /\ shippingCostData' = <<>>
    /\ enrichedData' = Enriched(orderData, shippingCostData', shippingSettings)
    /\ UNCHANGED <<shippingSettings, orderData>>
    /\ UNCHANGED notShipVars

\* a click on one of the three estimation methods
SetShippingMethod(method) ==
    /\ shippingSettings' = [shippingSettings EXCEPT !.method = method]
    /\ enrichedData' = Enriched(orderData, shippingCostData, shippingSettings')
    /\ UNCHANGED <<shippingCostData, orderData>>
    /\ UNCHANGED notShipVars

\* the profit-by-order report arrives with a row; the report renders it
LoadOrderReport(row) ==
    /\ orderData' = <<row>>
    /\ enrichedData' = Enriched(orderData', shippingCostData, shippingSettings)
    /\ UNCHANGED <<shippingCostData, shippingSettings>>
    /\ UNCHANGED notShipVars

ShipNext ==
    \/ \E cell \in CsvCells, parsedCost \in CsvCosts :
          HandleShippingCsvUpload(cell, parsedCost)
    \/ \E i \in 1..MaxEntries : RemoveShippingCost(i)
    \/ ClearShippingCosts
    \/ \E method \in ShippingMethods : SetShippingMethod(method)
    \/ \E row \in OrderRows : LoadOrderReport(row)

-----------------------------------------------------------------------------
(* ManageCostsTab and ProfitByOrderReport: the transaction fee of an order *)
(* Percentages are in hundredths of a percent, money in cents.             *)

\* c.toLowerCase() of one character
LowerChar(c) == CASE c = "P" -> "p" [] c = "S" -> "s" [] OTHER -> c

\* s.toLowerCase()
ToLowerCase(s) == [i \in 1..Len(s) |-> LowerChar(s[i])]

\* s.includes(sub)
Includes(s, sub) ==
    \E i \in 0..(Len(s) - Len(sub)) : SubSeq(s, i + 1, i + Len(sub)) = sub

StrPaypal == <<"p", "a", "y", "p", "a", "l">>
StrStripe == <<"s", "t", "r", "i", "p", "e">>
StrShopify == <<"s", "h", "o", "p", "i", "f", "y">>
StrShopPay == <<"s", "h", "o", "p", "_", "p", "a", "y">>
StrUnknown == <<"u", "n", "k", "n", "o", "w", "n">>

\* the entries of KNOWN_GATEWAYS a merchant can add (two of the twelve)
KNOWN_GATEWAYS ==
    {[id |-> "klarna", apiName |-> <<"k", "l", "a", "r", "n", "a">>, defaultRate |-> 329, defaultFee |-> 30],
     [id |-> "zip", apiName |-> <<"z", "i", "p">>, defaultRate |-> 600, defaultFee |-> 30]}

\* order.paymentGatewayNames of the feed: absent or empty, or a list of names
PaymentGatewayNames ==
    {<<>>, <<<<"P", "a", "y", "P", "a", "l">>>>, <<<<"s", "t", "r", "i", "p", "e">>>>, <<<<"s", "h", "o", "p", "i", "f", "y", "_", "p", "a", "y", "m", "e", "n", "t", "s">>>>, <<<<"k", "l", "a", "r", "n", "a">>>>,
     <<<<"z", "i", "p", "p", "a", "y">>>>, <<<<"m", "a", "n", "u", "a", "l">>>>, <<<<"s", "h", "o", "p", "i", "f", "y", "_", "p", "a", "y", "m", "e", "n", "t", "s">>, <<"p", "a", "y", "p", "a", "l">>>>}

\* order.paymentGatewayNames?.[0] || "unknown"
PaymentGatewayOf(names) ==
    IF names # <<>> /\ names[1] # <<>> THEN names[1] ELSE StrUnknown

\* the gateway argument of getTransactionFees: undefined (None) or the name
\* the profitByOrder action put in the row
GatewayArgs == {None} \cup {Some(PaymentGatewayOf(names)) : names \in PaymentGatewayNames}

NetRevenues == {0, 10000}

\* the plans of the quick setup: Shopify Payments rate and surcharge
ShopifyRates ==
    [basic |-> [rate |-> 290, surcharge |-> 200],
     shopify |-> [rate |-> 260, surcharge |-> 100],
     advanced |-> [rate |-> 240, surcharge |-> 50],
     plus |-> [rate |-> 215, surcharge |-> 0]]

\* additionalGateways.find over every gateway, matching or not
FindAdditionalGatewayAny(gatewayLower, additionalGateways) ==
    IF additionalGateways # <<>> THEN Some(additionalGateways[1]) ELSE None

\* additionalGateways.find(g => gatewayLower.includes(g.apiName.toLowerCase()))
FindAdditionalGateway(gatewayLower, additionalGateways) ==
    LET hits == {i \in 1..Len(additionalGateways) :
                    Includes(gatewayLower,
                             ToLowerCase(additionalGateways[i].apiName))}
    IN IF hits = {} THEN None
       ELSE Some(additionalGateways[CHOOSE i \in hits : \A j \in hits : i <= j])

\* rate, fixedFee and surcharge as getTransactionFees selects them
FeeTerms(gateway, settings) ==
    LET gatewayLower == ToLowerCase(IF gateway = None THEN <<>> ELSE gateway[1])
        default == [rate |-> settings.shopifyPayments.rate,
                    fixedFee |-> settings.shopifyPayments.fixedFee,
                    surcharge |-> 0]
        additionalGateway ==
            FindAdditionalGateway(gatewayLower, settings.additionalGateways)
    IN IF Includes(gatewayLower, StrPaypal) /\ settings.paypal.enabled
       THEN [rate |-> settings.paypal.rate,
             fixedFee |-> settings.paypal.fixedFee,
             surcharge |-> IF ~settings.usesShopifyPayments
                           THEN settings.shopifySurcharge ELSE 0]
       ELSE IF Includes(gatewayLower, StrStripe) /\ settings.stripe.enabled
       THEN [rate |-> settings.stripe.rate,
             fixedFee |-> settings.stripe.fixedFee,
             surcharge |-> settings.shopifySurcharge]
       ELSE IF Includes(gatewayLower, StrShopify) \/ Includes(gatewayLower, StrShopPay)
       THEN default
       ELSE IF additionalGateway # None
       THEN [rate |-> additionalGateway[1].rate,
             fixedFee |-> additionalGateway[1].fixedFee,
             surcharge |-> settings.shopifySurcharge]
       ELSE default

\* (netRevenue * ((rate + surcharge) / 100)) + fixedFee, in cents
FeeAmount(netRevenue, rate, surcharge, fixedFee) ==
    FracAdd(Frac(netRevenue * (rate + surcharge), 10000), Num(fixedFee))

getTransactionFees(netRevenue, gateway, settings) ==
    LET t == FeeTerms(gateway, settings)
    IN FeeAmount(netRevenue, t.rate, t.surcharge, t.fixedFee)

\* the fee the report shows for the loaded row
RenderedFee(order, settings) ==
    IF order = None THEN None
    ELSE Some(getTransactionFees(order[1].netRevenue, order[1].paymentGateway,
                                 settings))

\* useState: US basic plan, PayPal enabled, Stripe disabled
FeeInit ==
    /\ transactionFeeSettings =
          [quickSetup |-> "us-basic",
           shopifyPayments |-> [rate |-> 290, fixedFee |-> 30],
           paypal |-> [rate |-> 299, fixedFee |-> 49, enabled |-> TRUE],
           stripe |-> [rate |-> 290, fixedFee |-> 30, enabled |-> FALSE],
           shopifySurcharge |-> 200,
           usesShopifyPayments |-> TRUE,
           additionalGateways |-> <<>>]
    /\ feeOrder = None
    /\ transactionFees = None

\* what every settings handler ends with: the new settings are rendered
SetTransactionFeeSettings(settings) ==
    /\ transactionFeeSettings' = settings
    /\ transactionFees' = RenderedFee(feeOrder, settings)
    /\ UNCHANGED feeOrder
    /\ UNCHANGED notFeeVars

\* the plan select of the quick setup
SelectQuickSetup(value) ==
    SetTransactionFeeSettings(
        [transactionFeeSettings EXCEPT
            !.quickSetup = "us-" \o value,
            !.shopifyPayments = [rate |-> ShopifyRates[value].rate, fixedFee |-> 30],
            !.shopifySurcharge = ShopifyRates[value].surcharge])

\* "Do you use Shopify Payments?"
SelectUsesShopifyPayments(yes) ==
    SetTransactionFeeSettings(
        [transactionFeeSettings EXCEPT !.usesShopifyPayments = yes])

\* the PayPal checkbox
TogglePaypal(checked) ==
    SetTransactionFeeSettings(
        [transactionFeeSettings EXCEPT !.paypal.enabled = checked])

\* the Stripe checkbox
ToggleStripe(checked) ==
    SetTransactionFeeSettings(
        [transactionFeeSettings EXCEPT !.stripe.enabled = checked])

\* Add Gateway: one of the known gateways not yet added
AddGateway(gateway) ==
    /\ \A i \in 1..Len(transactionFeeSettings.additionalGateways) :
          transactionFeeSettings.additionalGateways[i].id # gateway.id
    /\ SetTransactionFeeSettings(
          [transactionFeeSettings EXCEPT
              !.additionalGateways =
                  Append(@, [id |-> gateway.id, apiName |-> gateway.apiName,
                             rate |-> gateway.defaultRate,
                             fixedFee |-> gateway.defaultFee])])

\* the Remove button of an added gateway
RemoveGateway(i) ==
    /\ i \in 1..Len(transactionFeeSettings.additionalGateways)
    /\ SetTransactionFeeSettings(
          [transactionFeeSettings EXCEPT
              !.additionalGateways =
                  SelectSeq(@, LAMBDA g :
                      g.id # transactionFeeSettings.additionalGateways[i].id)])

\* the profit-by-order report renders a row
LoadFeeOrder(netRevenue, gateway) ==
    /\ feeOrder' = Some([netRevenue |-> netRevenue, paymentGateway |-> gateway])
    /\ transactionFees' = RenderedFee(feeOrder', transactionFeeSettings)
    /\ UNCHANGED transactionFeeSettings
    /\ UNCHANGED notFeeVars

FeeNext ==
    \/ \E value \in DOMAIN ShopifyRates : SelectQuickSetup(value)
    \/ \E yes \in BOOLEAN : SelectUsesShopifyPayments(yes)
    \/ \E checked \in BOOLEAN : TogglePaypal(checked)
    \/ \E checked \in BOOLEAN : ToggleStripe(checked)
    \/ \E gateway \in KNOWN_GATEWAYS : AddGateway(gateway)
    \/ \E i \in 1..Cardinality(KNOWN_GATEWAYS) : RemoveGateway(i)
    \/ \E netRevenue \in NetRevenues, gateway \in GatewayArgs :
          LoadFeeOrder(netRevenue, gateway)

-----------------------------------------------------------------------------
(* action() (dashboard): the period buckets, the customers, the payload    *)
(* A date is [y, m, d]; a day, month or quarter key is the tuple of the    *)
(* numbers its zero-padded string shows, compared from the left.           *)

Date(y, m, d) == [y |-> y, m |-> m, d |-> d]

DaysInMonth(y, m) ==
    IF m = 2 THEN (IF y % 4 = 0 THEN 29 ELSE 28)
    ELSE IF m \in {4, 6, 9, 11} THEN 30 ELSE 31

RECURSIVE DaysBeforeMonth(_, _)
DaysBeforeMonth(y, m) ==
    IF m = 1 THEN 0 ELSE DaysBeforeMonth(y, m - 1) + DaysInMonth(y, m - 1)

RECURSIVE DaysBeforeYear(_)
\* the days from 1 January 2025 to 1 January of year y
DaysBeforeYear(y) ==
    IF y = 2025 THEN 0
    ELSE IF y > 2025 THEN DaysBeforeYear(y - 1) + DaysBeforeMonth(y - 1, 12) + 31
    ELSE DaysBeforeYear(y + 1) - (DaysBeforeMonth(y, 12) + 31)

\* Math.floor(a / b), b > 0
FloorDiv(a, b) == IF a >= 0 THEN a \div b ELSE -((-a + b - 1) \div b)

\* getWeekNumber: the weeks are counted from 1 January 2025
getWeekNumber(date) ==
    LET diffInDays == DaysBeforeYear(date.y) + DaysBeforeMonth(date.y, date.m)
                        + (date.d - 1)
    IN FloorDiv(diffInDays, 7) + 1

\* order.createdAt.split('T')[0], .substring(0, 7), `${year}-Q${...}`
DayKey(date) == <<date.y, date.m, date.d>>
MonthKey(date) == <<date.y, date.m>>
QuarterKey(date) == <<date.y, FloorDiv(date.m - 1, 3) + 1>>

RECURSIVE KeyLess(_, _)
\* a.localeCompare(b) < 0 on two keys of one format
KeyLess(a, b) ==
    IF a = <<>> \/ b = <<>> THEN FALSE
    ELSE IF Head(a) # Head(b) THEN Head(a) < Head(b)
    ELSE KeyLess(Tail(a), Tail(b))

\* the comparator of a row list: a.week - b.week for the weekly rows,
\* localeCompare for the others
RowLess(kind, a, b) == IF kind = "week" THEN a < b ELSE KeyLess(a, b)

\* a Map keeps its keys in insertion order: a sequence of [key, value]
MapHas(m, k) == \E i \in 1..Len(m) : m[i].key = k
MapIndex(m, k) == CHOOSE i \in 1..Len(m) : m[i].key = k
MapValue(m, k, default) == IF MapHas(m, k) THEN m[MapIndex(m, k)].value ELSE default
MapPut(m, k, v) ==
    IF MapHas(m, k) THEN [m EXCEPT ![MapIndex(m, k)].value = v]
    ELSE Append(m, [key |-> k, value |-> v])

\* .sort((a, b) => ...) of rows with distinct keys (the keys of one Map):
\* the row with p - 1 smaller keys comes to place p
SortRows(rows, kind) ==
    LET n == Len(rows)
        keys == SubSeq([i \in 1..n |-> rows[i].key], 1, n)
        ranks == SubSeq([i \in 1..n |->
                    1 + Cardinality({j \in 1..n : RowLess(kind, keys[j], keys[i])})],
                    1, n)
    IN [p \in 1..n |-> rows[CHOOSE i \in 1..n : ranks[i] = p]]

\* Math.round(x * 100) / 100 of an amount x in cents: the nearest cent, a
\* half rounded up
RoundCents(x) == FloorDiv(2 * x.num + x.den, 2 * x.den)

\* the dates an order can be created at, and the moments an invocation runs
OrderDates == {Date(2024, 12, 31), Date(2025, 1, 7)}
Nows == {Date(2025, 1, 9), Date(2026, 2, 1)}
NotAfter(a, b) == a = b \/ KeyLess(DayKey(a), DayKey(b))

\* order.customer?.id: a customer id, or Undefined for a guest order
Customers == {Undefined, "c1"}

\* the amounts of an order (cents): subtotal, discounts, shipping, total price
OrderAmounts ==
    {[subtotal |-> 10000, totalDiscounts |-> 1000, totalShipping |-> 500,
      totalPrice |-> 10500],
     [subtotal |-> 60000, totalDiscounts |-> 0, totalShipping |-> 0,
      totalPrice |-> 60000],
     [subtotal |-> 2500, totalDiscounts |-> 500, totalShipping |-> 0,
      totalPrice |-> 2500]}

\* the orders of the dashboard feed; the id of an order is its place in it
AggOrders ==
    {[createdAt |-> d, customer |-> c, subtotal |-> a.subtotal,
      totalDiscounts |-> a.totalDiscounts, totalShipping |-> a.totalShipping,
      totalPrice |-> a.totalPrice,
      lineItems |-> <<[product |-> NoProduct, quantity |-> 2,
                       originalTotal |-> a.subtotal + a.totalDiscounts,
                       totalDiscount |-> 0]>>] :
        d \in OrderDates, c \in Customers, a \in OrderAmounts}

ZeroBucket ==
    [grossRevenue |-> Num(0), discounts |-> Num(0), orderCount |-> 0,
     shippingRevenue |-> Num(0), itemCount |-> 0]

\* existing + this order's totals
AddToBucket(existing, totals) ==
    [grossRevenue |-> FracAdd(existing.grossRevenue, Num(totals.grossRevenue)),
     discounts |-> FracAdd(existing.discounts, totals.discounts),
     orderCount |-> existing.orderCount + 1,
     shippingRevenue |-> FracAdd(existing.shippingRevenue, Num(totals.shippingRevenue)),
     itemCount |-> existing.itemCount + totals.itemCount]

\* map.set(key, existing(key) + totals)
Accumulated(m, key, totals) ==
    MapPut(m, key, AddToBucket(MapValue(m, key, ZeroBucket), totals))

\* currentYear === 2025 ? getWeekNumber(now) : 53
MaxWeekOf(date) == IF date.y = 2025 THEN getWeekNumber(date) ELSE 53

\* no week is seeded
SeededWeeksNone(maxWeek) == <<>>

\* for (let i = 1; i <= maxWeek; i++) weeklyData.set(i, zeroes)
SeededWeeks(maxWeek) == [i \in 1..maxWeek |-> [key |-> i, value |-> ZeroBucket]]

\* the groupBy values a pl request can carry
GroupBys == {NullStr, "day", "week", "month", "quarter", "year"}

AggIdle ==
    /\ aggReport = "none"
    /\ groupBy = NullStr
    /\ periodData = <<>>
    /\ plData = None
    /\ orderReport = None
    /\ now = Date(2025, 1, 9)
    /\ aggOrders = <<>>
    /\ weeklyData = <<>>
    /\ dailyData = <<>>
    /\ monthlyData = <<>>
    /\ quarterlyData = <<>>
    /\ ltvData = None
    /\ dashboardPayload = None

\* a dashboard invocation after its fetch loop: the maps created, the weeks
\* seeded
AggInit ==
    /\ aggReport \in {"dashboard", "pl"}
    /\ groupBy \in GroupBys
    /\ aggReport = "dashboard" => groupBy = NullStr
    /\ periodData = <<>>
    /\ plData = None
    /\ orderReport = None
    /\ now \in Nows
    /\ aggReport = "pl" => now = Date(2026, 2, 1)
    /\ aggOrders = <<>>
    /\ weeklyData = IF aggReport = "dashboard" THEN SeededWeeks(MaxWeekOf(now))
                    ELSE <<>>
    /\ dailyData = <<>>
    /\ monthlyData = <<>>
    /\ quarterlyData = <<>>
    /\ ltvData = None
    /\ dashboardPayload = None

\* the four maps after the main loop has passed one more order: the order's
\* totals are added when grossRevenue > 0 || discounts > 0
BucketsAfter(order, buckets, pid, ptype) ==
    LET totals == OrderTotals(order, pid, ptype)
    IN IF totals.grossRevenue > 0 \/ totals.discounts.num > 0
       THEN [weekly |-> Accumulated(buckets.weekly,
                                    getWeekNumber(order.createdAt), totals),
             daily |-> Accumulated(buckets.daily, DayKey(order.createdAt), totals),
             monthly |-> Accumulated(buckets.monthly, MonthKey(order.createdAt), totals),
             quarterly |-> Accumulated(buckets.quarterly,
                                       QuarterKey(order.createdAt), totals)]
       ELSE buckets

\* one pass of the main loop `for (const edge of allOrders)` of the dashboard
AggOrder(order) ==
    /\ aggReport = "dashboard"
    /\ dashboardPayload = None
    /\ Len(aggOrders) < MaxOrders
    /\ NotAfter(order.createdAt, now)
    /\ aggOrders' = Append(aggOrders, order)
    /\ LET after == BucketsAfter(order,
                        [weekly |-> weeklyData, daily |-> dailyData,
                         monthly |-> monthlyData, quarterly |-> quarterlyData],
                        productId, productType)
       IN /\ weeklyData' = after.weekly
          /\ dailyData' = after.daily
          /\ monthlyData' = after.monthly
          /\ quarterlyData' = after.quarterly
    /\ UNCHANGED <<orderReport, aggReport, groupBy, periodData, plData, now, ltvData,
                   dashboardPayload>>
    /\ UNCHANGED dashVars
    /\ UNCHANGED notAggVars

FracSub(a, b) == FracAdd(a, FracMul(Num(-1), b))

\* the cost assumptions of the dashboard: 40 %, 5.00 per order, 2.9 % + 0.30
costPercent == 40
shippingCostPerOrder == 500
txFeePercent == Frac(29, 10)
txFeeFlat == 30

\* a waterfall whose cogs are taken on the net revenue, shipping included
WaterfallCogsOnNetRevenue(data) ==
    LET netRev == FracAdd(FracSub(data.grossRevenue, data.discounts), data.shippingRevenue)
        cogs == FracMul(netRev, Frac(costPercent, 100))
        gp == FracSub(netRev, cogs)
        fulfill ==
            FracAdd(FracAdd(Num(data.orderCount * shippingCostPerOrder),
                            FracMul(FracMul(netRev, txFeePercent), Frac(1, 100))),
                    Num(data.orderCount * txFeeFlat))
    IN [netRev |-> netRev, cogs |-> cogs, gp |-> gp, fulfill |-> fulfill]

\* the unrounded netRev, cogs, gp and fulfill of a bucket
Waterfall(data) ==
    LET netSales == FracSub(data.grossRevenue, data.discounts)
        netRev == FracAdd(netSales, data.shippingRevenue)
        cogs == FracMul(netSales, Frac(costPercent, 100))
        gp == FracSub(netRev, cogs)
        fulfill ==
            FracAdd(FracAdd(Num(data.orderCount * shippingCostPerOrder),
                            FracMul(FracMul(netRev, txFeePercent), Frac(1, 100))),
                    Num(data.orderCount * txFeeFlat))
    IN [netRev |-> netRev, cogs |-> cogs, gp |-> gp, fulfill |-> fulfill]

\* the row a bucket is emitted as, its amounts rounded to cents
ChartRow(entry) ==
    LET data == entry.value
        w == Waterfall(data)
    IN [key |-> entry.key,
        grossRevenue |-> RoundCents(data.grossRevenue),
        discounts |-> RoundCents(data.discounts),
        netRevenue |-> RoundCents(w.netRev),
        grossProfit |-> RoundCents(w.gp),
        cm2 |-> RoundCents(FracSub(w.gp, w.fulfill)),
        orderCount |-> data.orderCount,
        shippingRevenue |-> RoundCents(data.shippingRevenue),
        itemCount |-> data.itemCount]

\* Array.from(map.entries()).map(...).sort(...)
ChartRows(m, kind) ==
    SortRows(SubSeq([i \in 1..Len(m) |-> ChartRow(m[i])], 1, Len(m)), kind)

\* order.customer?.id || "guest"
SpendKey(order, id) ==
    IF Truthy(order.customer) THEN <<order.customer>> ELSE <<"guest">>

\* a first-order key that is the same for every guest order
FirstOrderKeyOneGuest(order, id) ==
    IF Truthy(order.customer) THEN <<order.customer>> ELSE <<"guest">>

\* order.customer?.id || `guest-${order.id}`
FirstOrderKey(order, id) ==
    IF Truthy(order.customer) THEN <<order.customer>> ELSE <<"guest", id>>

RECURSIVE CustomerSpendFrom(_, _, _)
\* customerSpend.set(customerId, (customerSpend.get(customerId) || 0) + orderTotal)
CustomerSpendFrom(orders, id, m) ==
    IF id > Len(orders) THEN m
    ELSE CustomerSpendFrom(orders, id + 1,
             MapPut(m, SpendKey(orders[id], id),
                    MapValue(m, SpendKey(orders[id], id), 0) + orders[id].totalPrice))

CustomerSpend(orders) == CustomerSpendFrom(orders, 1, <<>>)

\* min and max of the seven buckets (cents); the last has no max
LtvMin == <<0, 2500, 5000, 10000, 20000, 50000, 100000>>
InBucket(spend, i) ==
    /\ spend >= LtvMin[i]
    /\ i < Len(LtvMin) => spend < LtvMin[i + 1]

\* the count of each bucket: a spend counts in the first bucket it is in
LtvCounts(customerSpend) ==
    [i \in 1..Len(LtvMin) |->
        Cardinality({j \in 1..Len(customerSpend) :
            /\ InBucket(customerSpend[j].value, i)
            /\ \A h \in 1..(i - 1) : ~InBucket(customerSpend[j].value, h)})]

\* a filter that keeps the first four buckets and the populated ones
KeepBucketIfPopulated(counts, i) == i <= 4 \/ counts[i] > 0

\* i < 4 || b.count > 0 || ltvBuckets.slice(i).some(bb => bb.count > 0)
KeepBucket(counts, i) ==
    i <= 4 \/ counts[i] > 0 \/ \E h \in i..Len(counts) : counts[h] > 0

RECURSIVE LtvFilterFrom(_, _)
\* ltvBuckets.filter(...) from bucket i on: the index and count of the kept
LtvFilterFrom(counts, i) ==
    IF i > Len(counts) THEN <<>>
    ELSE (IF KeepBucket(counts, i)
          THEN <<[bucket |-> i, count |-> counts[i]]>> ELSE <<>>)
         \o LtvFilterFrom(counts, i + 1)

LtvData(customerSpend) == LtvFilterFrom(LtvCounts(customerSpend), 1)

RECURSIVE CustomerFirstOrderFrom(_, _, _)
\* if (!existing || dateStr < existing.date) customerFirstOrder.set(...)
CustomerFirstOrderFrom(orders, id, m) ==
    IF id > Len(orders) THEN m
    ELSE LET order == orders[id]
             key == FirstOrderKey(order, id)
             dateStr == DayKey(order.createdAt)
         IN CustomerFirstOrderFrom(orders, id + 1,
                IF ~MapHas(m, key) \/ KeyLess(dateStr, MapValue(m, key, 0).date)
                THEN MapPut(m, key, [week |-> getWeekNumber(order.createdAt),
                                     date |-> dateStr,
                                     discount |-> order.totalDiscounts])
                ELSE m)

CustomerFirstOrder(orders) == CustomerFirstOrderFrom(orders, 1, <<>>)

ZeroAcquisition == [newBuyers |-> 0, totalDiscounts |-> 0]
Credited(existing, data) ==
    [newBuyers |-> existing.newBuyers + 1,
     totalDiscounts |-> existing.totalDiscounts + data.discount]

RECURSIVE AcquisitionMapsFrom(_, _, _, _)
\* for (const [, data] of customerFirstOrder): the weekly map is credited when
\* the week was seeded, the daily map always.  The result is the two maps.
AcquisitionMapsFrom(firsts, i, weekly, daily) ==
    IF i > Len(firsts) THEN <<weekly, daily>>
    ELSE LET data == firsts[i].value
         IN AcquisitionMapsFrom(firsts, i + 1,
                IF MapHas(weekly, data.week)
                THEN MapPut(weekly, data.week,
                            Credited(MapValue(weekly, data.week, ZeroAcquisition), data))
                ELSE weekly,
                MapPut(daily, data.date,
                       Credited(MapValue(daily, data.date, ZeroAcquisition), data)))

\* newBuyers and avgCAC of a period
AcquisitionRow(entry) ==
    [key |-> entry.key,
     newBuyers |-> entry.value.newBuyers,
     avgCAC |-> IF entry.value.newBuyers > 0
                THEN RoundCents(Frac(entry.value.totalDiscounts, entry.value.newBuyers))
                ELSE 0]

AcquisitionRows(m, kind) ==
    SortRows(SubSeq([i \in 1..Len(m) |-> AcquisitionRow(m[i])], 1, Len(m)), kind)

\* the four row lists of the dashboard and the totals reduced from chartData
Charts(weekly, daily, monthly, quarterly) ==
    LET chartData == ChartRows(weekly, "week")
        n == Len(chartData)
    IN [chartData |-> chartData,
        dailyChartData |-> ChartRows(daily, "day"),
        monthlyChartData |-> ChartRows(monthly, "month"),
        quarterlyChartData |-> ChartRows(quarterly, "quarter"),
        totalRevenue |-> SumSeq(SubSeq([i \in 1..n |-> chartData[i].grossRevenue], 1, n)),
        totalDiscounts |-> SumSeq(SubSeq([i \in 1..n |-> chartData[i].discounts], 1, n)),
        totalOrders |-> SumSeq(SubSeq([i \in 1..n |-> chartData[i].orderCount], 1, n))]

\* the payload of the dashboard (the fields that depend on the buckets and
\* the customers)
DashboardPayload(orders, weekly, daily, monthly, quarterly, maxWeek) ==
    LET acquisition ==
            AcquisitionMapsFrom(CustomerFirstOrder(orders), 1,
                [i \in 1..maxWeek |-> [key |-> i, value |-> ZeroAcquisition]], <<>>)
        charts == Charts(weekly, daily, monthly, quarterly)
    IN [chartData |-> charts.chartData,
        dailyChartData |-> charts.dailyChartData,
        monthlyChartData |-> charts.monthlyChartData,
        quarterlyChartData |-> charts.quarterlyChartData,
        totalRevenue |-> charts.totalRevenue,
        totalDiscounts |-> charts.totalDiscounts,
        totalOrders |-> charts.totalOrders,
        totalCustomers |-> Len(CustomerSpend(orders)),
        acquisitionData |-> AcquisitionRows(acquisition[1], "week"),
        dailyAcquisitionData |-> AcquisitionRows(acquisition[2], "day")]

\* the rest of the dashboard branch after the main loop, up to return json()
AggReturn ==
    /\ aggReport = "dashboard"
    /\ dashboardPayload = None
    /\ ltvData' = Some(LtvData(CustomerSpend(aggOrders)))
    /\ dashboardPayload' =
          Some(DashboardPayload(aggOrders, weeklyData, dailyData, monthlyData,
                                quarterlyData, MaxWeekOf(now)))
    /\ UNCHANGED <<orderReport, aggReport, groupBy, periodData, plData, now, aggOrders,
                   weeklyData, dailyData, monthlyData, quarterlyData>>
    /\ UNCHANGED dashVars
    /\ UNCHANGED notAggVars

\* the getWeekNumber of the pl branch: the weeks are counted from 1 January
\* of the date's own year
PlWeekNumber(date) ==
    FloorDiv(DaysBeforeMonth(date.y, date.m) + (date.d - 1), 7) + 1

\* getPeriodKey, with groupBy || "month"
getPeriodKey(date, by) ==
    CASE by = "day" -> DayKey(date)
      [] by = "week" -> <<date.y, PlWeekNumber(date)>>
      [] by = "quarter" -> QuarterKey(date)
      [] by = "year" -> <<date.y>>
      [] OTHER -> MonthKey(date)

ZeroPeriod ==
    [grossSales |-> 0, discounts |-> 0, shippingRevenue |-> 0, orderCount |-> 0,
     itemCount |-> 0]

\* periodData.set(periodKey, existing + the order's amounts)
PeriodsAfter(order, periods, by) ==
    LET periodKey == getPeriodKey(order.createdAt, by)
        existing == MapValue(periods, periodKey, ZeroPeriod)
    IN MapPut(periods, periodKey,
           [grossSales |-> existing.grossSales + order.subtotal + order.totalDiscounts,
            discounts |-> existing.discounts + order.totalDiscounts,
            shippingRevenue |-> existing.shippingRevenue + order.totalShipping,
            orderCount |-> existing.orderCount + 1,
            itemCount |-> existing.itemCount
                          + SumSeq([i \in 1..Len(order.lineItems) |->
                                       order.lineItems[i].quantity])])

\* the row a period is emitted as
PlRow(entry) ==
    LET data == entry.value
        netSales == data.grossSales - data.discounts
    IN [key |-> entry.key,
        grossSales |-> RoundCents(Num(data.grossSales)),
        discounts |-> RoundCents(Num(data.discounts)),
        netSales |-> RoundCents(Num(netSales)),
        shippingRevenue |-> RoundCents(Num(data.shippingRevenue)),
        netRevenue |-> RoundCents(Num(netSales + data.shippingRevenue)),
        orderCount |-> data.orderCount,
        itemCount |-> data.itemCount]

\* plData: Array.from(periodData.entries()).map(...).sort(...)
PlRows(m) == SortRows(SubSeq([i \in 1..Len(m) |-> PlRow(m[i])], 1, Len(m)), "period")

\* one pass of `for (const edge of allOrders)` of the pl branch
PlOrder(order) ==
    /\ aggReport = "pl"
    /\ plData = None
    /\ Len(aggOrders) < MaxOrders
    /\ NotAfter(order.createdAt, now)
    /\ aggOrders' = Append(aggOrders, order)
    /\ periodData' = PeriodsAfter(order, periodData, groupBy)
    /\ UNCHANGED <<orderReport, aggReport, groupBy, plData, now, weeklyData, dailyData,
                   monthlyData, quarterlyData, ltvData, dashboardPayload>>
    /\ UNCHANGED dashVars
    /\ UNCHANGED notAggVars

\* the pl branch after its loop: the rows of the payload
PlReturn ==
    /\ aggReport = "pl"
    /\ plData = None
    /\ plData' = Some(PlRows(periodData))
    /\ UNCHANGED <<orderReport, aggReport, groupBy, periodData, now, aggOrders, weeklyData,
                   dailyData, monthlyData, quarterlyData, ltvData, dashboardPayload>>
    /\ UNCHANGED dashVars
    /\ UNCHANGED notAggVars

\* the rows of the profitByOrder payload, newest first; orders of the same
\* moment keep their order of arrival
NewestFirst(rows) ==
    LET n == Len(rows)
        ranks == SubSeq([i \in 1..n |->
                    1 + Cardinality({j \in 1..n :
                            \/ KeyLess(DayKey(rows[i].createdAt), DayKey(rows[j].createdAt))
                            \/ rows[j].createdAt = rows[i].createdAt /\ j < i})],
                    1, n)
    IN [p \in 1..n |-> rows[CHOOSE i \in 1..n : ranks[i] = p]]

\* the row of an order in the profitByOrder payload
OrderReportRow(order) ==
    LET grossSales == order.subtotal + order.totalDiscounts
        netSales == grossSales - order.totalDiscounts
    IN [createdAt |-> order.createdAt,
        grossSales |-> RoundCents(Num(grossSales)),
        discounts |-> RoundCents(Num(order.totalDiscounts)),
        netSales |-> RoundCents(Num(netSales)),
        shippingRevenue |-> RoundCents(Num(order.totalShipping)),
        netRevenue |-> RoundCents(Num(netSales + order.totalShipping)),
        itemCount |-> SumSeq([i \in 1..Len(order.lineItems) |->
                                 order.lineItems[i].quantity])]

OrderReport(orders) ==
    NewestFirst(SubSeq([i \in 1..Len(orders) |-> OrderReportRow(orders[i])],
                       1, Len(orders)))

\* the profitByOrder branch run on the orders the pl branch was run on
ProfitByOrderReturn ==
    /\ aggReport = "pl"
    /\ plData # None
    /\ orderReport = None
    /\ orderReport' = Some(OrderReport(aggOrders))
    /\ UNCHANGED <<aggReport, groupBy, periodData, plData, now, aggOrders,
                   weeklyData, dailyData, monthlyData, quarterlyData, ltvData,
                   dashboardPayload>>
    /\ UNCHANGED dashVars
    /\ UNCHANGED notAggVars

\* the cost of goods as a percentage of sales, in PLReport (its initial
\* state) and in ProfitByOrderReport
productCostPercent == 40

\* PLReport, enrichedData: the cogs of a period row
PlCogs(m) == FracMul(Num(m.grossSales - m.discounts), Frac(productCostPercent, 100))

\* ProfitByOrderReport, enrichedData: the cogs of an order row
OrderCogs(o) ==
    LET grossRevenue == o.grossSales + o.shippingRevenue
        netRevenue == grossRevenue - o.discounts
    IN FracMul(Num(netRevenue), Frac(productCostPercent, 100))

AggNext ==
    \/ \E order \in AggOrders : AggOrder(order)
    \/ AggReturn
    \/ \E order \in AggOrders : PlOrder(order)
    \/ PlReturn
    \/ ProfitByOrderReturn

-----------------------------------------------------------------------------
(* The numbers of the dashboard loop as the program holds them: IEEE 754
   binary64, every operation rounded to nearest, ties to even.  A double is
   [neg, m, e], the value (+/-) m * 2^e with m below 2^53 (or 2^53 itself);
   m is a natural number in limbs of 15 bits, least significant first. *)

LimbBase == 2^15

RECURSIVE BNorm(_)
BNorm(a) ==
    IF a # <<>> /\ a[Len(a)] = 0 THEN BNorm(SubSeq(a, 1, Len(a) - 1)) ELSE a

RECURSIVE BFromInt(_)
BFromInt(n) == IF n = 0 THEN <<>> ELSE <<n % LimbBase>> \o BFromInt(n \div LimbBase)

RECURSIVE BToInt(_)
BToInt(a) == IF a = <<>> THEN 0 ELSE Head(a) + LimbBase * BToInt(Tail(a))

Limb(a, i) == IF i <= Len(a) THEN a[i] ELSE 0
Zeros(n) == [i \in 1..n |-> 0]

RECURSIVE BAddFrom(_, _, _, _)
BAddFrom(a, b, i, carry) ==
    IF i > Len(a) /\ i > Len(b) THEN (IF carry = 0 THEN <<>> ELSE <<carry>>)
    ELSE LET t == Limb(a, i) + Limb(b, i) + carry
         IN <<t % LimbBase>> \o BAddFrom(a, b, i + 1, t \div LimbBase)

BAdd(a, b) == BAddFrom(a, b, 1, 0)

RECURSIVE BSubFrom(_, _, _, _)
BSubFrom(a, b, i, borrow) ==
    IF i > Len(a) THEN <<>>
    ELSE LET t == a[i] - Limb(b, i) - borrow
         IN <<IF t < 0 THEN t + LimbBase ELSE t>>
            \o BSubFrom(a, b, i + 1, IF t < 0 THEN 1 ELSE 0)

\* a - b for a >= b
BSub(a, b) == BNorm(BSubFrom(a, b, 1, 0))

RECURSIVE BCmpFrom(_, _, _)
BCmpFrom(a, b, i) ==
    IF i = 0 THEN 0
    ELSE IF a[i] # b[i] THEN (IF a[i] < b[i] THEN -1 ELSE 1)
    ELSE BCmpFrom(a, b, i - 1)

\* -1, 0 or 1 as a is below, equal to or above b
BCmp(a, b) ==
    IF Len(a) # Len(b) THEN (IF Len(a) < Len(b) THEN -1 ELSE 1)
    ELSE BCmpFrom(a, b, Len(a))

RECURSIVE BMulSmallFrom(_, _, _, _)
BMulSmallFrom(a, k, i, carry) ==
    IF i > Len(a) THEN (IF carry = 0 THEN <<>> ELSE <<carry>>)
    ELSE LET t == a[i] * k + carry
         IN <<t % LimbBase>> \o BMulSmallFrom(a, k, i + 1, t \div LimbBase)

\* a * k for a limb k
BMulSmall(a, k) == IF k = 0 THEN <<>> ELSE BMulSmallFrom(a, k, 1, 0)

RECURSIVE BMulFrom(_, _, _)
BMulFrom(a, b, i) ==
    IF i > Len(b) THEN <<>>
    ELSE BAdd(Zeros(i - 1) \o BMulSmall(a, b[i]), BMulFrom(a, b, i + 1))

BMul(a, b) == BNorm(BMulFrom(a, b, 1))

RECURSIVE BDivSmallFrom(_, _, _, _)
BDivSmallFrom(a, k, i, rem) ==
    IF i = 0 THEN [q |-> <<>>, r |-> rem]
    ELSE LET t == rem * LimbBase + a[i]
             rest == BDivSmallFrom(a, k, i - 1, t % k)
         IN [q |-> Append(rest.q, t \div k), r |-> rest.r]

\* quotient and remainder of a by a limb k
BDivSmall(a, k) ==
    LET d == BDivSmallFrom(a, k, Len(a), 0) IN [q |-> BNorm(d.q), r |-> d.r]

RECURSIVE Pow2(_)
Pow2(k) == IF k = 0 THEN 1 ELSE 2 * Pow2(k - 1)

RECURSIVE BitLenSmall(_)
BitLenSmall(x) == IF x = 0 THEN 0 ELSE 1 + BitLenSmall(x \div 2)

BitLen(a) == IF a = <<>> THEN 0 ELSE 15 * (Len(a) - 1) + BitLenSmall(a[Len(a)])

\* a * 2^k and floor(a / 2^k)
BShl(a, k) == IF a = <<>> THEN <<>> ELSE Zeros(k \div 15) \o BMulSmall(a, Pow2(k % 15))
BShr(a, k) ==
    IF k \div 15 >= Len(a) THEN <<>>
    ELSE BDivSmall(SubSeq(a, (k \div 15) + 1, Len(a)), Pow2(k % 15)).q

\* the double nearest to (+/-) n * 2^e, ties to the even mantissa
RoundToDouble(neg, n, e) ==
    LET k == BitLen(n) - 53
    IN IF k <= 0 THEN [neg |-> neg, m |-> n, e |-> e]
       ELSE LET q == BShr(n, k)
                rem == BSub(n, BShl(q, k))
                c == BCmp(rem, BShl(<<1>>, k - 1))
                up == c > 0 \/ (c = 0 /\ q[1] % 2 = 1)
            IN [neg |-> neg, m |-> IF up THEN BAdd(q, <<1>>) ELSE q, e |-> e + k]

\* an integer as a double
FromInt(n) == [neg |-> n < 0, m |-> BFromInt(IF n < 0 THEN -n ELSE n), e |-> 0]

\* x + y
FAdd(x, y) ==
    LET e == IF x.e < y.e THEN x.e ELSE y.e
        xm == BShl(x.m, x.e - e)
        ym == BShl(y.m, y.e - e)
    IN IF x.neg = y.neg THEN RoundToDouble(x.neg, BAdd(xm, ym), e)
       ELSE IF BCmp(xm, ym) >= 0 THEN RoundToDouble(x.neg, BSub(xm, ym), e)
       ELSE RoundToDouble(y.neg, BSub(ym, xm), e)

\* x - y
FSub(x, y) == FAdd(x, [y EXCEPT !.neg = ~y.neg])

\* x * y
FMul(x, y) == RoundToDouble(x.neg # y.neg, BMul(x.m, y.m), x.e + y.e)

\* x / y for a divisor whose mantissa is one limb (the program divides by
\* 100 and its decimal literals are tenths and hundredths): the quotient to
\* 57 bits and more, and a last bit that says whether a remainder was left
FDiv(x, y) ==
    LET s == 57 + BitLen(y.m)
        d == BDivSmall(BShl(x.m, s), BToInt(y.m))
        n == BAdd(BMulSmall(d.q, 2), IF d.r = 0 THEN <<>> ELSE <<1>>)
    IN IF x.m = <<>> THEN x
       ELSE RoundToDouble(x.neg # y.neg, n, x.e - y.e - s - 1)

\* parseFloat of an amount string of whole cents, and a decimal literal
ParseCents(cents) == FDiv(FromInt(cents), FromInt(100))

\* Math.round(x): the nearest integer, a half rounded towards +Infinity
MathRound(x) ==
    IF x.e >= 0 THEN (IF x.neg THEN -1 ELSE 1) * BToInt(BShl(x.m, x.e))
    ELSE LET k == -x.e
             half == BShl(<<1>>, k - 1)
         IN IF x.neg THEN -BToInt(BShr(BSub(BAdd(x.m, half), <<1>>), k))
            ELSE BToInt(BShr(BAdd(x.m, half), k))

\* the orders of one week (cents): subtotal, discounts, shipping
NumAmounts ==
    {[subtotal |-> 1010, totalDiscounts |-> 0, totalShipping |-> 0],
     [subtotal |-> 8480, totalDiscounts |-> 0, totalShipping |-> 0],
     [subtotal |-> 10000, totalDiscounts |-> 1000, totalShipping |-> 500],
     [subtotal |-> 2500, totalDiscounts |-> 500, totalShipping |-> 0]}

NumZeroBucket ==
    [grossRevenue |-> FromInt(0), discounts |-> FromInt(0), orderCount |-> 0,
     shippingRevenue |-> FromInt(0)]

\* the unfiltered amounts of an order and weeklyData.set(weekNum, existing + them)
NumAccumulated(existing, order) ==
    LET subtotal == ParseCents(order.subtotal)
        discounts == ParseCents(order.totalDiscounts)
        grossRevenue == FAdd(subtotal, discounts)
        shippingRevenue == ParseCents(order.totalShipping)
    IN [grossRevenue |-> FAdd(existing.grossRevenue, grossRevenue),
        discounts |-> FAdd(existing.discounts, discounts),
        orderCount |-> existing.orderCount + 1,
        shippingRevenue |-> FAdd(existing.shippingRevenue, shippingRevenue)]

\* Math.round(x * 100) / 100, as the number of cents it shows
NumRoundCents(x) == MathRound(FMul(x, FromInt(100)))

\* the chartData row of a bucket
NumChartRow(data) ==
    LET netRev == FAdd(FSub(data.grossRevenue, data.discounts), data.shippingRevenue)
        cogs == FMul(FSub(data.grossRevenue, data.discounts),
                     FDiv(FromInt(costPercent), FromInt(100)))
        gp == FSub(netRev, cogs)
        fulfill ==
            FAdd(FAdd(FMul(FromInt(data.orderCount), ParseCents(shippingCostPerOrder)),
                      FDiv(FMul(netRev, FDiv(FromInt(txFeePercent.num),
                                             FromInt(txFeePercent.den))),
                           FromInt(100))),
                 FMul(FromInt(data.orderCount), ParseCents(txFeeFlat)))
    IN [grossRevenue |-> NumRoundCents(data.grossRevenue),
        discounts |-> NumRoundCents(data.discounts),
        netRevenue |-> NumRoundCents(netRev),
        grossProfit |-> NumRoundCents(gp),
        cm2 |-> NumRoundCents(FSub(gp, fulfill)),
        orderCount |-> data.orderCount,
        shippingRevenue |-> NumRoundCents(data.shippingRevenue)]

NumInit ==
    /\ numOrders = <<>>
    /\ numBucket = NumZeroBucket
    /\ numRow = None

\* one pass of the main loop over an order of the week; the loop passes up
\* to MaxOrders + 1 of them
NumOrder(order) ==
    /\ numRow = None
    /\ Len(numOrders) <= MaxOrders
    /\ numOrders' = Append(numOrders, order)
    /\ numBucket' = NumAccumulated(numBucket, order)
    /\ UNCHANGED numRow
    /\ UNCHANGED notNumVars

\* the week's row is emitted
NumReturn ==
    /\ numRow = None
    /\ numRow' = Some(NumChartRow(numBucket))
    /\ UNCHANGED <<numOrders, numBucket>>
    /\ UNCHANGED notNumVars

NumNext ==
    \/ \E order \in NumAmounts : NumOrder(order)
    \/ NumReturn

-----------------------------------------------------------------------------
(* Two invocations of action() (dashboard) against one shop.  Everything the
   dashboard branch accumulates into is declared inside the invocation (let
   allOrders, hasNextPage, cursor at 191-193, the Maps at 251-254); the
   invocations meet only in the shop, which they do not write. *)

Invocations == {1, 2}
Queries == {"primary", "comparison"}

\* two orders the shop has
FeedOrderA ==
    [createdAt |-> Date(2025, 1, 7), customer |-> "c1", subtotal |-> 10000,
     totalDiscounts |-> 1000, totalShipping |-> 500, totalPrice |-> 10500,
     lineItems |-> <<[product |-> NoProduct, quantity |-> 2,
                      originalTotal |-> 11000, totalDiscount |-> 0]>>]
FeedOrderB ==
    [createdAt |-> Date(2024, 12, 31), customer |-> Undefined, subtotal |-> 2500,
     totalDiscounts |-> 500, totalShipping |-> 0, totalPrice |-> 2500,
     lineItems |-> <<[product |-> NoProduct, quantity |-> 2,
                      originalTotal |-> 3000, totalDiscount |-> 0]>>]

\* the pages a query can have: the edges of each page
Feeds ==
    {<<<<>>>>,
     <<<<FeedOrderA>>>>,
     <<<<FeedOrderA>>, <<FeedOrderB>>>>,
     <<<<FeedOrderB, FeedOrderA>>, <<>>, <<FeedOrderA>>>>}

\* the allOrders an invocation appends to and aggregates: its own
AccumulatorShared(i) == 1
Accumulator(i) == i

RECURSIVE BucketsFrom(_, _, _)
\* the four maps after the main loop has passed orders[i..]
BucketsFrom(orders, i, buckets) ==
    IF i > Len(orders) THEN buckets
    ELSE BucketsFrom(orders, i + 1,
                     BucketsAfter(orders[i], buckets, productId, productType))

\* the dashboard branch from its Maps to return json(), on allOrders
PayloadOf(orders) ==
    LET buckets == BucketsFrom(orders, 1,
                       [weekly |-> SeededWeeks(MaxWeekOf(now)), daily |-> <<>>,
                        monthly |-> <<>>, quarterly |-> <<>>])
    IN DashboardPayload(orders, buckets.weekly, buckets.daily, buckets.monthly,
                        buckets.quarterly, MaxWeekOf(now))

InvIdle ==
    /\ orderFeed = [q \in Queries |-> <<<<>>>>]
    /\ invQuery = [i \in Invocations |-> "primary"]
    /\ invPc = [i \in Invocations |-> "done"]
    /\ invAllOrders = [i \in Invocations |-> <<>>]
    /\ invHasNextPage = [i \in Invocations |-> FALSE]
    /\ invCursor = [i \in Invocations |-> 0]
    /\ invResponse = [i \in Invocations |-> None]
    /\ invOverlap = FALSE

\* both requests are submitted: the primary period and either the comparison
\* period or the primary period again
InvInit ==
    /\ orderFeed \in [Queries -> Feeds]
    /\ invQuery \in {[i \in Invocations |-> "primary"],
                      [i \in Invocations |-> IF i = 1 THEN "primary" ELSE "comparison"]}
    /\ invPc = [i \in Invocations |-> "loop"]
    /\ invAllOrders = [i \in Invocations |-> <<>>]
    /\ invHasNextPage = [i \in Invocations |-> TRUE]
    /\ invCursor = [i \in Invocations |-> 0]
    /\ invResponse = [i \in Invocations |-> None]
    /\ invOverlap = FALSE

\* the other invocation has begun and not returned
OtherRunning(i) ==
    \E j \in Invocations \ {i} :
        invPc[j] # "done" /\ (invPc[j] = "await" \/ invCursor[j] > 0)

\* while (hasNextPage): admin.graphql(...) is called with the cursor and awaited
InvRequest(i) ==
    /\ invPc[i] = "loop"
    /\ invHasNextPage[i]
    /\ invPc' = [invPc EXCEPT ![i] = "await"]
    /\ invOverlap' = (invOverlap \/ OtherRunning(i))
    /\ UNCHANGED <<orderFeed, invQuery, invAllOrders, invHasNextPage, invCursor,
                   invResponse>>
    /\ UNCHANGED notInvVars

\* the page arrives: allOrders = [...allOrders, ...orders], hasNextPage, cursor
InvReceive(i) ==
    /\ invPc[i] = "await"
    /\ LET feedPages == orderFeed[invQuery[i]]
           orders == feedPages[invCursor[i] + 1]
       IN /\ invAllOrders' = [invAllOrders EXCEPT
                                  ![Accumulator(i)] = invAllOrders[Accumulator(i)] \o orders]
          /\ invHasNextPage' = [invHasNextPage EXCEPT
                                    ![i] = invCursor[i] + 1 < Len(feedPages)]
    /\ invCursor' = [invCursor EXCEPT ![i] = @ + 1]
    /\ invPc' = [invPc EXCEPT ![i] = "loop"]
    /\ invOverlap' = (invOverlap \/ OtherRunning(i))
    /\ UNCHANGED <<orderFeed, invQuery, invResponse>>
    /\ UNCHANGED notInvVars

\* the loop is left: the orders are aggregated and the payload returned
InvReturn(i) ==
    /\ invPc[i] = "loop"
    /\ ~invHasNextPage[i]
    /\ invResponse' = [invResponse EXCEPT
                          ![i] = Some(PayloadOf(invAllOrders[Accumulator(i)]))]
    /\ invPc' = [invPc EXCEPT ![i] = "done"]
    /\ invOverlap' = (invOverlap \/ OtherRunning(i))
    /\ UNCHANGED <<orderFeed, invQuery, invAllOrders, invHasNextPage, invCursor>>
    /\ UNCHANGED notInvVars

InvNext ==
    \E i \in Invocations : InvRequest(i) \/ InvReceive(i) \/ InvReturn(i)

-----------------------------------------------------------------------------
(* PLReport: the period rows as rendered.  Amounts are exact fractions of a   *)
(* cent until they are rounded for the row; a percentage is emitted in        *)
(* tenths of a percent.                                                       *)

\* useState(5), useState(2.9), useState(0.30), useState(0), useState(0); the
\* setters are never called, and shippingCostMethod stays "flat"
flatShippingCost == 500
transactionFeePercent == Frac(29, 10)
transactionFeeFlat == 30
adSpend == 0
opex == 0

\* a / b (b > 0) and k * x (k a positive integer)
FracDiv(a, b) == Frac(a.num * b.den, a.den * b.num)
FracScale(k, x) ==
    LET g == GCD(k, x.den)
    IN Frac((k \div g) * x.num, x.den \div g)

\* Math.round(x * 10) / 10, in tenths
RoundTenths(x) == RoundCents(FracScale(10, x))

\* the period rows of a pl payload: grossSales, discounts, shippingRevenue in
\* cents, and the counts
PlPeriodRow(g, d, s, n, i) ==
    [grossSales |-> g, discounts |-> d, shippingRevenue |-> s,
     orderCount |-> n, itemCount |-> i]
PlPeriodRows ==
    {PlPeriodRow(1000, 0, 0, 1, 1), PlPeriodRow(1001, 0, 0, 1, 1),
     PlPeriodRow(11000, 1000, 500, 1, 2), PlPeriodRow(2500, 0, 0, 2, 3)}
PlPayloads ==
    {[plData |-> rows, totalRefunds |-> r] :
        rows \in UNION {[1..n -> PlPeriodRows] : n \in 0..MaxPeriods},
        r \in {0, 4, 2999}}

\* plData.length || 1
PeriodCount(rows) == IF Len(rows) = 0 THEN 1 ELSE Len(rows)

\* the callback of plData.map: the waterfall of one period and the row
\* returned, every figure rounded on its own
PlEnrich(m, refunds, periods) ==
    LET grossRevenue == m.grossSales + m.shippingRevenue
        returnsPerPeriod == Frac(refunds, periods)
        netRevenue == FracSub(Num(grossRevenue - m.discounts), returnsPerPeriod)
        cogs == PlCogs(m)
        grossProfit == FracSub(netRevenue, cogs)
        \* netRevenue > 0 ? (x / netRevenue) * 100 : 0
        PercentOf(x) ==
            IF netRevenue.num > 0 THEN FracScale(100, FracDiv(x, netRevenue))
            ELSE Num(0)
        shippingCost == Num(m.orderCount * flatShippingCost)
        fees ==
            FracAdd(FracMul(netRevenue, FracMul(transactionFeePercent, Frac(1, 100))),
                    Num(m.orderCount * transactionFeeFlat))
        fulfillmentCost == FracAdd(shippingCost, fees)
        cm2 == FracSub(grossProfit, fulfillmentCost)
        adSpendPerPeriod == Frac(adSpend, periods)
        cm3 == FracSub(cm2, adSpendPerPeriod)
        opexPerPeriod == Frac(opex, periods)
        netProfit == FracSub(cm3, opexPerPeriod)
    IN [grossRevenue |-> grossRevenue,
        returns |-> RoundCents(returnsPerPeriod),
        netRevenue |-> RoundCents(netRevenue),
        cogs |-> RoundCents(cogs),
        grossProfit |-> RoundCents(grossProfit),
        grossProfitPercent |-> RoundTenths(PercentOf(grossProfit)),
        shippingCost |-> RoundCents(shippingCost),
        transactionFees |-> RoundCents(fees),
        fulfillmentCost |-> RoundCents(fulfillmentCost),
        cm2 |-> RoundCents(cm2),
        cm2Percent |-> RoundTenths(PercentOf(cm2)),
        adSpendPerPeriod |-> RoundCents(adSpendPerPeriod),
        cm3 |-> RoundCents(cm3),
        cm3Percent |-> RoundTenths(PercentOf(cm3)),
        opexPerPeriod |-> RoundCents(opexPerPeriod),
        netProfit |-> RoundCents(netProfit),
        netProfitPercent |-> RoundTenths(PercentOf(netProfit))]

\* enrichedData = plData.map(...)
PlEnriched(payload) ==
    LET rows == payload.plData
    IN IF rows = <<>> THEN <<>>
       ELSE SubSeq([i \in 1..Len(rows) |->
                       PlEnrich(rows[i], payload.totalRefunds, PeriodCount(rows))],
                   1, Len(rows))

\* the report before it was run: fetcher.data undefined, plData [], no rows
PlReportInit ==
    /\ plFetcher = None
    /\ plEnrichedData = <<>>

\* the pl payload arrives in fetcher.data; the render computes the rows
PlLoad(payload) ==
    /\ plFetcher' = Some(payload)
    /\ plEnrichedData' = PlEnriched(payload)
    /\ UNCHANGED notPlReportVars

PlReportNext == \E payload \in PlPayloads : PlLoad(payload)

-----------------------------------------------------------------------------
(* Index: the dashboard's selection, its two fetchers and the lift handed to  *)
(* the metric cards.  Of the three filters the product filter is followed     *)
(* (product type and channel are submitted in the same way).  A fetcher is    *)
(* its state, the submission in flight and its data; a payload carries, next  *)
(* to its totalRevenue, the submission it answers (not a field of the         *)
(* program's payload: it is kept to tell the answers apart).                  *)

SelectableProducts == {"all", "P1"}
SelectableStartDates == {Date(2024, 12, 1), Date(2025, 1, 1)}
SelectableEndDates == {Date(2025, 1, 31), Date(2025, 2, 28)}
\* totalRevenue of a payload, in cents
PayloadRevenues == {0, 10000, 12500}

\* startYear !== endYear
isMultiYear(start, end) == start.y # end.y

\* compStart.setFullYear(compStart.getFullYear() - 1), and the same for the end
getComparisonDates(start, end) ==
    [compStartDate |-> [start EXCEPT !.y = @ - 1],
     compEndDate |-> [end EXCEPT !.y = @ - 1]]

\* the form a fetcher submits
Submission(product, start, end) ==
    [actionType |-> "dashboard", productId |-> product,
     startDate |-> start, endDate |-> end]

\* the dashboard payload that answers a submission
DashboardAnswer(submission, revenue) ==
    [type |-> "dashboard", totalRevenue |-> revenue, request |-> submission]

\* fetcher.submit(...): the fetcher is loading the new submission, a request
\* in flight is dropped, the data stays
Submitted(fetcher, submission) ==
    [fetcher EXCEPT !.state = "loading", !.submission = Some(submission)]

\* the effect on [selectedProduct, ..., startDate, endDate, isMultiYear]: the
\* two fetchers after it ran
EffectDashboard(product, start, end) ==
    Submitted(dashboardFetcher, Submission(product, start, end))
EffectComparison(product, start, end) ==
    IF ~isMultiYear(start, end)
    THEN LET comp == getComparisonDates(start, end)
         IN Submitted(comparisonFetcher,
                      Submission(product, comp.compStartDate, comp.compEndDate))
    ELSE comparisonFetcher

\* fetcher.data?.type === "dashboard" ? fetcher.data : null
DataOf(fetcher) ==
    IF fetcher.data # None /\ fetcher.data[1].type = "dashboard"
    THEN fetcher.data ELSE None
dashboardData == DataOf(dashboardFetcher)
comparisonData == DataOf(comparisonFetcher)
\* dashboardData?.totalRevenue || 0, comparisonData?.totalRevenue || 0
totalRevenue == IF dashboardData # None THEN dashboardData[1].totalRevenue ELSE 0
compRevenue == IF comparisonData # None THEN comparisonData[1].totalRevenue ELSE 0

\* calcLift: None for undefined, else the percentage
calcLift(current, previous, multiYear) ==
    IF multiYear THEN None
    ELSE IF previous = 0 THEN Some(IF current > 0 THEN Num(100) ELSE Num(0))
    ELSE Some(FracScale(100, Frac(current - previous, previous)))

\* lift={calcLift(totalRevenue, compRevenue)} of the Gross Revenue card
RevenueLift ==
    calcLift(totalRevenue, compRevenue, isMultiYear(selectedStartDate, selectedEndDate))

\* the first render and its effect: month to date, no filter; both fetchers
\* are loading
IndexInit ==
    /\ selectedProduct = "all"
    /\ selectedStartDate = Date(2025, 1, 1)
    /\ selectedEndDate = Date(2025, 1, 31)
    /\ dashboardFetcher =
          [state |-> "loading",
           submission |-> Some(Submission("all", Date(2025, 1, 1), Date(2025, 1, 31))),
           data |-> None]
    /\ comparisonFetcher =
          [state |-> "loading",
           submission |-> Some(Submission("all", Date(2024, 1, 1), Date(2024, 1, 31))),
           data |-> None]

\* setSelectedProduct(value), the render and the effect that follows it
handleProductChange(value) ==
    /\ value # selectedProduct
    /\ selectedProduct' = value
    /\ dashboardFetcher' = EffectDashboard(value, selectedStartDate, selectedEndDate)
    /\ comparisonFetcher' = EffectComparison(value, selectedStartDate, selectedEndDate)
    /\ UNCHANGED <<selectedStartDate, selectedEndDate>>
    /\ UNCHANGED notIndexVars

handleStartDateChange(value) ==
    /\ value # selectedStartDate
    /\ selectedStartDate' = value
    /\ dashboardFetcher' = EffectDashboard(selectedProduct, value, selectedEndDate)
    /\ comparisonFetcher' = EffectComparison(selectedProduct, value, selectedEndDate)
    /\ UNCHANGED <<selectedProduct, selectedEndDate>>
    /\ UNCHANGED notIndexVars

handleEndDateChange(value) ==
    /\ value # selectedEndDate
    /\ selectedEndDate' = value
    /\ dashboardFetcher' = EffectDashboard(selectedProduct, selectedStartDate, value)
    /\ comparisonFetcher' = EffectComparison(selectedProduct, selectedStartDate, value)
    /\ UNCHANGED <<selectedProduct, selectedStartDate>>
    /\ UNCHANGED notIndexVars

\* the answer to the submission in flight arrives
Loaded(fetcher, revenue) ==
    [state |-> "idle", submission |-> None,
     data |-> Some(DashboardAnswer(fetcher.submission[1], revenue))]

\* the request in flight fails: the fetcher is idle again, with the data it had
Failed(fetcher) == [fetcher EXCEPT !.state = "idle", !.submission = None]

DashboardLoaded(revenue) ==
    /\ dashboardFetcher.state = "loading"
    /\ dashboardFetcher' = Loaded(dashboardFetcher, revenue)
    /\ UNCHANGED <<selectedProduct, selectedStartDate, selectedEndDate, comparisonFetcher>>
    /\ UNCHANGED notIndexVars

ComparisonLoaded(revenue) ==
    /\ comparisonFetcher.state = "loading"
    /\ comparisonFetcher' = Loaded(comparisonFetcher, revenue)
    /\ UNCHANGED <<selectedProduct, selectedStartDate, selectedEndDate, dashboardFetcher>>
    /\ UNCHANGED notIndexVars

DashboardFailed ==
    /\ dashboardFetcher.state = "loading"
    /\ dashboardFetcher' = Failed(dashboardFetcher)
    /\ UNCHANGED <<selectedProduct, selectedStartDate, selectedEndDate, comparisonFetcher>>
    /\ UNCHANGED notIndexVars

ComparisonFailed ==
    /\ comparisonFetcher.state = "loading"
    /\ comparisonFetcher' = Failed(comparisonFetcher)
    /\ UNCHANGED <<selectedProduct, selectedStartDate, selectedEndDate, dashboardFetcher>>
    /\ UNCHANGED notIndexVars

IndexNext ==
    \/ \E value \in SelectableProducts : handleProductChange(value)
    \/ \E value \in SelectableStartDates : handleStartDateChange(value)
    \/ \E value \in SelectableEndDates : handleEndDateChange(value)
    \/ \E revenue \in PayloadRevenues : DashboardLoaded(revenue)
    \/ \E revenue \in PayloadRevenues : ComparisonLoaded(revenue)
    \/ DashboardFailed
    \/ ComparisonFailed

-----------------------------------------------------------------------------
(* action(): the fetch loops *)

\* data.data?.orders?.edges || []
EdgesOf(page) == IF page.ok THEN page.edges ELSE <<>>
\* data.data?.orders?.pageInfo?.hasNextPage || false
HasNextOf(page) == IF page.ok THEN page.hasNextPage ELSE FALSE
\* data.data?.orders?.pageInfo?.endCursor || null
EndCursorOf(page) == IF page.ok THEN OrNull(page.endCursor) ELSE Null

\* an order list that puts the new page first
AppendPagePrepends(all, orders) == orders \o all

\* [...allOrders, ...orders]
AppendPage(all, orders) == all \o orders

RECURSIVE RefundsAnyDate(_)
\* a loop that counts every refund of a refunded order of the window
RefundsAnyDate(refunds) ==
    IF refunds = <<>> THEN 0
    ELSE Head(refunds).amount + RefundsAnyDate(Tail(refunds))

RECURSIVE RefundsInWindow(_)
\* the inner loop over one refunded order's refunds: the sum of the amounts
\* whose own date lies in [startDate, endDateExclusive)
RefundsInWindow(refunds) ==
    IF refunds = <<>> THEN 0
    ELSE LET r == Head(refunds)
         IN (IF r.createdAt >= startDate /\ r.createdAt < endDateExclusive
             THEN r.amount ELSE 0) + RefundsInWindow(Tail(refunds))

RECURSIVE RefundPageTotal(_)
\* for (const edge of refundOrders) ...
RefundPageTotal(edges) ==
    IF edges = <<>> THEN 0
    ELSE RefundsInWindow(Head(edges)) + RefundPageTotal(Tail(edges))

\* The payload of a report: its type, the rows (here: the orders they were
\* computed from) and, for the reports that fetch refunds, totalRefunds.
Payload(t, orders, refunds) ==
    [status |-> 200, type |-> t, rows |-> orders,
     totalRefunds |-> IF t \in RefundReports THEN refunds ELSE 0]

\* json({ error: "Unknown action type" }, { status: 400 })
UnknownAction == [status |-> 400, type |-> "error", rows |-> <<>>, totalRefunds |-> 0]

FetchInit ==
    /\ pc = "idle"
    /\ actionType = "none"
    /\ allOrders = <<>>
    /\ hasNextPage = FALSE
    /\ cursor = Null
    /\ totalRefunds = 0
    /\ refundsHasNextPage = FALSE
    /\ refundsCursor = Null
    /\ aggInput = None
    /\ response = None
    /\ requests = <<>>
    /\ pages = <<>>
    /\ refundRequests = <<>>
    /\ refundPages = <<>>

\* The request arrives: the branch of its actionType starts its fetch loop.
Invoke(t) ==
    /\ pc = "idle"
    /\ actionType' = t
    /\ IF t \in ReportTypes
       THEN /\ allOrders' = <<>>
            /\ hasNextPage' = TRUE
            /\ cursor' = Null
            /\ pc' = "orders"
            /\ UNCHANGED response
       ELSE /\ response' = Some(UnknownAction)
            /\ pc' = "returned"
            /\ UNCHANGED <<allOrders, hasNextPage, cursor>>
    /\ UNCHANGED <<totalRefunds, refundsHasNextPage, refundsCursor, aggInput,
                   requests, pages, refundRequests, refundPages>>
    /\ UNCHANGED notFetchVars

\* while (hasNextPage) { await admin.graphql(..., { variables: { cursor } })
RequestOrders ==
    /\ pc = "orders"
    /\ hasNextPage
    /\ Len(requests) < MaxPages
    /\ requests' = Append(requests, cursor)
    /\ pc' = "awaitOrders"
    /\ UNCHANGED <<actionType, allOrders, hasNextPage, cursor, totalRefunds,
                   refundsHasNextPage, refundsCursor, aggInput, response,
                   pages, refundRequests, refundPages>>
    /\ UNCHANGED notFetchVars

\* the page arrives: the rest of the loop body
ReceiveOrders(page) ==
    /\ pc = "awaitOrders"
    /\ pages' = Append(pages, page)
    /\ allOrders' = AppendPage(allOrders, EdgesOf(page))
    /\ hasNextPage' = HasNextOf(page)
    /\ cursor' = EndCursorOf(page)
    /\ pc' = "orders"
    /\ UNCHANGED <<actionType, totalRefunds, refundsHasNextPage, refundsCursor,
                   aggInput, response, requests, refundRequests, refundPages>>
    /\ UNCHANGED notFetchVars

\* a loop that swallows the failure and goes on with the pages it has
OrdersThrowTolerated ==
    /\ pc = "awaitOrders"
    /\ pc' = "orders"
    /\ hasNextPage' = FALSE
    /\ UNCHANGED <<actionType, allOrders, cursor, totalRefunds,
                   refundsHasNextPage, refundsCursor, aggInput, response,
                   requests, pages, refundRequests, refundPages>>
    /\ UNCHANGED notFetchVars

\* admin.graphql (or response.json) throws: nothing in action() catches it
OrdersThrow ==
    /\ pc = "awaitOrders"
    /\ pc' = "threw"
    /\ UNCHANGED <<actionType, allOrders, hasNextPage, cursor, totalRefunds,
                   refundsHasNextPage, refundsCursor, aggInput, response,
                   requests, pages, refundRequests, refundPages>>
    /\ UNCHANGED notFetchVars

\* The loop has ended: the aggregation loops run over allOrders; a report
\* without refunds answers, the others start the refund loop.
Aggregate ==
    /\ pc = "orders"
    /\ ~hasNextPage
    /\ aggInput' = Some(allOrders)
    /\ IF actionType \in RefundReports
       THEN /\ totalRefunds' = 0
            /\ refundsHasNextPage' = TRUE
            /\ refundsCursor' = Null
            /\ pc' = "refunds"
            /\ UNCHANGED response
       ELSE /\ response' = Some(Payload(actionType, allOrders, 0))
            /\ pc' = "returned"
            /\ UNCHANGED <<totalRefunds, refundsHasNextPage, refundsCursor>>
    /\ UNCHANGED <<actionType, allOrders, hasNextPage, cursor, requests, pages,
                   refundRequests, refundPages>>
    /\ UNCHANGED notFetchVars

\* while (refundsHasNextPage) { await admin.graphql(..., { cursor: refundsCursor })
RequestRefunds ==
    /\ pc = "refunds"
    /\ refundsHasNextPage
    /\ Len(refundRequests) < MaxPages
    /\ refundRequests' = Append(refundRequests, refundsCursor)
    /\ pc' = "awaitRefunds"
    /\ UNCHANGED <<actionType, allOrders, hasNextPage, cursor, totalRefunds,
                   refundsHasNextPage, refundsCursor, aggInput, response,
                   requests, pages, refundPages>>
    /\ UNCHANGED notFetchVars

ReceiveRefunds(page) ==
    /\ pc = "awaitRefunds"
    /\ refundPages' = Append(refundPages, page)
    /\ totalRefunds' = totalRefunds + RefundPageTotal(EdgesOf(page))
    /\ refundsHasNextPage' = HasNextOf(page)
    /\ refundsCursor' = EndCursorOf(page)
    /\ pc' = "refunds"
    /\ UNCHANGED <<actionType, allOrders, hasNextPage, cursor, aggInput,
                   response, requests, pages, refundRequests>>
    /\ UNCHANGED notFetchVars

RefundsThrow ==
    /\ pc = "awaitRefunds"
    /\ pc' = "threw"
    /\ UNCHANGED <<actionType, allOrders, hasNextPage, cursor, totalRefunds,
                   refundsHasNextPage, refundsCursor, aggInput, response,
                   requests, pages, refundRequests, refundPages>>
    /\ UNCHANGED notFetchVars

\* return json({ type, ..., totalRefunds })
Return ==
    /\ pc = "refunds"
    /\ ~refundsHasNextPage
    /\ response' = Some(Payload(actionType, aggInput[1], totalRefunds))
    /\ pc' = "returned"
    /\ UNCHANGED <<actionType, allOrders, hasNextPage, cursor, totalRefunds,
                   refundsHasNextPage, refundsCursor, aggInput, requests, pages,
                   refundRequests, refundPages>>
    /\ UNCHANGED notFetchVars

FetchNext ==
    \/ \E t \in ReportTypes \cup {"other"} : Invoke(t)
    \/ RequestOrders
    \/ \E page \in OrderPages(Len(pages) + 1) : ReceiveOrders(page)
    \/ OrdersThrow
    \/ Aggregate
    \/ RequestRefunds
    \/ \E page \in RefundFeedPages(Len(refundPages) + 1) : ReceiveRefunds(page)
    \/ RefundsThrow
    \/ Return

InitFetch == FetchInit /\ DashIdle /\ FoldIdle /\ ShipInit /\ FeeInit /\ AggIdle /\ NumInit /\ InvIdle
    /\ PlReportInit /\ IndexInit

SpecFetch == InitFetch /\ [][FetchNext]_vars

-----------------------------------------------------------------------------
(* action(): the fetch loops without an end.  `while (hasNextPage)` has no   *)
(* counter; the histories `requests` / `pages` keep the first MaxPages        *)
(* entries, and a loop that goes on after them is followed in its control     *)
(* state (pc, hasNextPage, cursor) only: the last slot of `pages` then holds  *)
(* the page received last, and the orders and refunds of those pages are not  *)
(* accumulated.                                                               *)

\* a loop that gives up after MaxPages pages and goes on with what it has
ExitAtCap ==
    /\ pc = "orders"
    /\ hasNextPage
    /\ Len(requests) = MaxPages
    /\ hasNextPage' = FALSE
    /\ UNCHANGED <<pc, actionType, allOrders, cursor, totalRefunds,
                   refundsHasNextPage, refundsCursor, aggInput, response,
                   requests, pages, refundRequests, refundPages>>
    /\ UNCHANGED notFetchVars

\* while (hasNextPage) { await admin.graphql(...) after MaxPages requests
RequestOrdersBeyond ==
    /\ pc = "orders"
    /\ hasNextPage
    /\ Len(requests) = MaxPages
    /\ pc' = "awaitOrders"
    /\ UNCHANGED <<actionType, allOrders, hasNextPage, cursor, totalRefunds,
                   refundsHasNextPage, refundsCursor, aggInput, response,
                   requests, pages, refundRequests, refundPages>>
    /\ UNCHANGED notFetchVars

\* the rest of the loop body for a page after the MaxPages-th
ReceiveOrdersBeyond(page) ==
    /\ pc = "awaitOrders"
    /\ Len(pages) = MaxPages
    /\ pages' = [pages EXCEPT ![MaxPages] = page]
    /\ hasNextPage' = HasNextOf(page)
    /\ cursor' = EndCursorOf(page)
    /\ pc' = "orders"
    /\ UNCHANGED <<actionType, allOrders, totalRefunds, refundsHasNextPage,
                   refundsCursor, aggInput, response, requests, refundRequests,
                   refundPages>>
    /\ UNCHANGED notFetchVars

\* while (refundsHasNextPage) { await admin.graphql(...) after MaxPages requests
RequestRefundsBeyond ==
    /\ pc = "refunds"
    /\ refundsHasNextPage
    /\ Len(refundRequests) = MaxPages
    /\ pc' = "awaitRefunds"
    /\ UNCHANGED <<actionType, allOrders, hasNextPage, cursor, totalRefunds,
                   refundsHasNextPage, refundsCursor, aggInput, response,
                   requests, pages, refundRequests, refundPages>>
    /\ UNCHANGED notFetchVars

ReceiveRefundsBeyond(page) ==
    /\ pc = "awaitRefunds"
    /\ Len(refundPages) = MaxPages
    /\ refundPages' = [refundPages EXCEPT ![MaxPages] = page]
    /\ refundsHasNextPage' = HasNextOf(page)
    /\ refundsCursor' = EndCursorOf(page)
    /\ pc' = "refunds"
    /\ UNCHANGED <<actionType, allOrders, hasNextPage, cursor, totalRefunds,
                   aggInput, response, requests, pages, refundRequests>>
    /\ UNCHANGED notFetchVars

\* The pages the feeds answer with here: a full page that announces a next
\* one, a last page, and a body without data.
LiveOrderPages(j) ==
    {page \in OrderPages(j) :
        \/ ~page.ok
        \/ page.hasNextPage /\ Len(page.edges) = MaxPerPage
        \/ ~page.hasNextPage /\ Len(page.edges) = 1}
LiveRefundPages(j) ==
    {page \in RefundFeedPages(j) :
        \/ ~page.ok
        \/ page.hasNextPage /\ page.edges = << <<Refund(250, startDate)>> >>
        \/ ~page.hasNextPage /\ page.edges = <<>>}

\* the order request in flight settles: a page arrives or the call throws
OrdersSettle ==
    \/ \E page \in LiveOrderPages(Len(pages) + 1) :
          Len(pages) < MaxPages /\ ReceiveOrders(page)
    \/ \E page \in LiveOrderPages(MaxPages) : ReceiveOrdersBeyond(page)
    \/ OrdersThrow

\* the refund request in flight settles
RefundsSettle ==
    \/ \E page \in LiveRefundPages(Len(refundPages) + 1) :
          Len(refundPages) < MaxPages /\ ReceiveRefunds(page)
    \/ \E page \in LiveRefundPages(MaxPages) : ReceiveRefundsBeyond(page)
    \/ RefundsThrow

FetchLiveNext ==
    \/ \E t \in ReportTypes \cup {"other"} : Invoke(t)
    \/ RequestOrders
    \/ RequestOrdersBeyond
    \/ OrdersSettle
    \/ Aggregate
    \/ RequestRefunds
    \/ RequestRefundsBeyond
    \/ RefundsSettle
    \/ Return

\* The steps of action() between two awaits are run by the JS runtime as
\* soon as they can run, and a request in flight settles (with a page or by
\* throwing).  When a request arrives is left open.
FetchFairness ==
    /\ WF_vars(RequestOrders \/ RequestOrdersBeyond)
    /\ WF_vars(OrdersSettle)
    /\ WF_vars(Aggregate)
    /\ WF_vars(RequestRefunds \/ RequestRefundsBeyond)
    /\ WF_vars(RefundsSettle)
    /\ WF_vars(Return)

SpecFetchLive == InitFetch /\ [][FetchLiveNext]_vars /\ FetchFairness

-----------------------------------------------------------------------------
(* Claims about the fetch loops (SpecFetch) *)

RECURSIVE Flatten(_)
\* p1.edges ++ p2.edges ++ ... ++ pn.edges
Flatten(ps) == IF ps = <<>> THEN <<>> ELSE Head(ps).edges \o Flatten(Tail(ps))

\* every page received so far is a well-formed page
AllOk(ps) == \A i \in 1..Len(ps) : ps[i].ok

\* the feed p1..pn is complete and only pn reports hasNextPage = false
OnlyLastEnds(ps) ==
    /\ Len(ps) >= 1
    /\ \A i \in 1..Len(ps) : ps[i].hasNextPage <=> i < Len(ps)

C2_ThrowAborts ==
    /\ (Len(requests) > Len(pages) /\ pc # "awaitOrders") =>
          /\ pc = "threw"
          /\ response = None
          /\ aggInput = None
          /\ Len(requests) = Len(pages) + 1
          /\ refundRequests = <<>>
    /\ (Len(refundRequests) > Len(refundPages) /\ pc # "awaitRefunds") =>
          /\ pc = "threw"
          /\ response = None
          /\ Len(refundRequests) = Len(refundPages) + 1
    /\ pc = "threw" => response = None

\* the request for the second refund page threw after two order pages and one
\* refund page had been received
C2_Witness ==
    /\ pc = "threw"
    /\ Len(pages) = 2
    /\ Len(allOrders) > 0
    /\ Len(refundPages) = 1
    /\ Len(refundRequests) = 2

\* order pages were received and the request for page 3 threw
C2_WitnessOrders ==
    /\ pc = "threw"
    /\ Len(pages) = 2
    /\ Len(requests) = 3

\* C3: once a malformed page (no data.orders) has been received, the
\* invocation never answers with a successful payload.
C3_MalformedIsFatal ==
    (\E i \in 1..Len(pages) : ~pages[i].ok) =>
        (response = None \/ response[1].status # 200)

\* the refunds of the pages received so far, each with its own date
\* (a page holds at most two refunded orders of at most two refunds)
RefundsReceived ==
    {t \in (1..Len(refundPages)) \X (1..2) \X (1..2) :
        /\ refundPages[t[1]].ok
        /\ t[2] <= Len(refundPages[t[1]].edges)
        /\ t[3] <= Len(refundPages[t[1]].edges[t[2]])}
RefundOf(t) == refundPages[t[1]].edges[t[2]][t[3]]

RECURSIVE SumAmounts(_)
\* the sum of the amounts of a set of received refunds
SumAmounts(ts) ==
    IF ts = {} THEN 0
    ELSE LET t == CHOOSE x \in ts : TRUE
         IN RefundOf(t).amount + SumAmounts(ts \ {t})

\* C24: totalRefunds is the sum, over all pages of the refund feed, of the
\* amounts of exactly the refunds whose own date d has
\* startDate <= d < endDateExclusive; a refund dated outside the window
\* contributes nothing.
C24_RefundWindow ==
    (pc \in {"refunds", "returned"} /\ actionType \in RefundReports) =>
        /\ totalRefunds =
              SumAmounts({t \in RefundsReceived :
                            /\ RefundOf(t).createdAt >= startDate
                            /\ RefundOf(t).createdAt <= endDate})
        /\ response # None => response[1].totalRefunds = totalRefunds

\* two refund pages: a refund on the last day of the window next to one on
\* the day after, then a refund of the day before the window; only the first
\* is counted
C24_Witness ==
    /\ response # None /\ actionType \in RefundReports
    /\ Len(refundPages) = 2
    /\ refundPages[1].ok /\ refundPages[2].ok
    /\ refundPages[1].edges = << <<Refund(400, endDate), Refund(100, endDateExclusive)>> >>
    /\ refundPages[2].edges = << <<Refund(700, startDate - 1)>>, <<>> >>
    /\ response[1].totalRefunds = 400

-----------------------------------------------------------------------------
(* Claims about the fetch loops without an end (SpecFetchLive) *)

\* a page of the order feed / of the refund feed has reported hasNextPage
\* false, or has not reported it
OrderFeedEnded == \E i \in 1..Len(pages) : ~pages[i].ok \/ ~pages[i].hasNextPage
RefundFeedEnded ==
    \E i \in 1..Len(refundPages) : ~refundPages[i].ok \/ ~refundPages[i].hasNextPage

\* C23: the fetch loop has no iteration cap.  An invocation answers only if
\* a page of each feed it reads has reported hasNextPage false or absent;
\* once the order feed has done so the aggregation runs, and once every feed
\* read has done so the invocation answers; an invocation whose order feed
\* reports hasNextPage = true on every page, and whose requests do not throw,
\* never answers and issues requests again and again.
C23_NoIterationCap ==
    /\ [](pc = "returned" /\ actionType \in ReportTypes =>
             /\ OrderFeedEnded
             /\ actionType \in RefundReports => RefundFeedEnded)
    /\ (OrderFeedEnded ~> aggInput # None)
    /\ ((OrderFeedEnded /\ (actionType \in RefundReports => RefundFeedEnded))
            ~> pc = "returned")
    /\ (([](~OrderFeedEnded /\ pc # "threw") /\ <>(pc = "awaitOrders"))
            => ([](response = None) /\ []<>(pc = "awaitOrders")))

\* MaxPages pages have all announced a next page and a further request is
\* in flight
C23_Witness ==
    /\ pc = "awaitOrders"
    /\ Len(pages) = MaxPages
    /\ Len(requests) = MaxPages
    /\ ~OrderFeedEnded
    /\ response = None

-----------------------------------------------------------------------------
(* Claims about the dashboard's per-order totals (SpecDash) *)

InitDash == DashInit /\ FetchInit /\ FoldIdle /\ ShipInit /\ FeeInit /\ AggIdle /\ NumInit /\ InvIdle
    /\ PlReportInit /\ IndexInit

SpecDash == InitDash /\ [][DashNext]_vars

\* the request is in filtered (per-line-item) mode
FilteredMode == HasFilter(productId) \/ HasFilter(productType)

\* the discount the rule of C4 gives a matching line item
C4_Rule(lineItem, order) ==
    IF lineItem.totalDiscount > 0 THEN Num(lineItem.totalDiscount)
    ELSE IF order.totalDiscounts = 0 \/ order.subtotal = 0 THEN Num(0)
    ELSE IF Len(order.lineItems) = 1 THEN Num(order.totalDiscounts)
    ELSE Frac(order.totalDiscounts * lineItem.originalTotal,
              order.subtotal + order.totalDiscounts)

RECURSIVE C4_Sum(_, _)
C4_Sum(items, order) ==
    IF items = <<>> THEN Num(0)
    ELSE FracAdd(IF Matches(Head(items), productId, productType)
                 THEN C4_Rule(Head(items), order) ELSE Num(0),
                 C4_Sum(Tail(items), order))

\* C4: in filtered mode the order's discounts are the sum, over its matching
\* line items, of: the line's own discount when > 0; else 0 when the order
\* discount or the subtotal is 0; else the whole order discount when the order
\* has one line item; else orderDiscount * lineTotal / (subtotal + discount).
C4_ProrationRule ==
    (dashTotals # None /\ FilteredMode) =>
        dashTotals[1].discounts = C4_Sum(dashOrder[1].lineItems, dashOrder[1])

\* the line items of the processed order
Items == dashOrder[1].lineItems
AllMatch == \A i \in 1..Len(Items) : Matches(Items[i], productId, productType)
NoLineDiscounts == \A i \in 1..Len(Items) : Items[i].totalDiscount = 0
GrossOfItems == SumSeq([i \in 1..Len(Items) |-> Items[i].originalTotal])
LineDiscountsOfItems == SumSeq([i \in 1..Len(Items) |-> Items[i].totalDiscount])

\* a two-item order, both items matching and without own discount, was prorated
C4_Witness ==
    /\ dashTotals # None /\ FilteredMode
    /\ Len(Items) = 2 /\ AllMatch /\ NoLineDiscounts
    /\ dashOrder[1].subtotal = 9000 /\ dashOrder[1].totalDiscounts = 1000
    /\ Items[1].originalTotal = 4000 /\ Items[2].originalTotal = 4000
    /\ dashTotals[1].discounts = Num(800)

\* the case of C5: N > 1 line items, none with its own discount, all
\* matching, nonzero subtotal and discount, subtotal + discount = gross
C5_Case ==
    /\ dashTotals # None /\ FilteredMode
    /\ Len(Items) > 1 /\ AllMatch /\ NoLineDiscounts
    /\ dashOrder[1].subtotal > 0 /\ dashOrder[1].totalDiscounts > 0
    /\ dashOrder[1].subtotal + dashOrder[1].totalDiscounts = GrossOfItems

\* C5: in that case the allocated discounts sum to the order discount and
\* each item's allocation is the order discount times its share of the gross.
C5_ProrationSum ==
    C5_Case =>
        /\ dashTotals[1].discounts = Num(dashOrder[1].totalDiscounts)
        /\ \A i \in 1..Len(Items) :
              LineItemDiscount(Items[i], dashOrder[1])
                = Frac(dashOrder[1].totalDiscounts * Items[i].originalTotal,
                       GrossOfItems)

C5_Witness ==
    /\ C5_Case
    /\ Items[1].originalTotal # Items[2].originalTotal

\* C6: when the order discount already includes the line-level discounts and
\* every line item matches, filtered mode attributes no more discount to the
\* order than the order-level total that unfiltered mode attributes.
C6_NoDoubleCount ==
    (/\ dashTotals # None /\ FilteredMode
     /\ AllMatch
     /\ dashOrder[1].subtotal + dashOrder[1].totalDiscounts = GrossOfItems
     /\ LineDiscountsOfItems <= dashOrder[1].totalDiscounts) =>
        FracLe(dashTotals[1].discounts,
               UnfilteredTotals(dashOrder[1]).discounts)

-----------------------------------------------------------------------------
(* Claims about the per-dimension folds (SpecFold) *)

InitFold == FoldInit /\ FetchInit /\ DashIdle /\ ShipInit /\ FeeInit /\ AggIdle /\ NumInit /\ InvIdle
    /\ PlReportInit /\ IndexInit

SpecFold == InitFold /\ [][FoldNext]_vars

\* the folded orders that have a line item with key k
OrdersWithKey(k) == {i \in 1..Len(foldedKeys) : k \in foldedKeys[i]}

\* C7: after folding any order list, every dimension key has a row and its
\* orderCount is the number of distinct orders with at least one (filter
\* passing) line item of that key.
C7_OrderCountDistinct ==
    /\ DOMAIN statData = UNION {foldedKeys[i] : i \in 1..Len(foldedKeys)}
    /\ \A k \in DOMAIN statData :
          statData[k].orderCount = Cardinality(OrdersWithKey(k))

\* two orders were folded, one of them with two line items of one key
C7_Witness ==
    /\ Len(foldedKeys) = 2
    /\ \E k \in DOMAIN statData :
          /\ statData[k].grossRevenue = 3 * 4000
          /\ statData[k].orderCount = 2

\* the line item passes the filters of the request
PassesFilters(lineItem) ==
    /\ ~(HasFilter(productTypeFilter)
          /\ OrEmpty(lineItem.product.productType) # productTypeFilter)
    /\ ~(HasFilter(productTagFilter) /\ productTagFilter \notin lineItem.product.tags)

\* the original totals of the line items of an order that pass the filters
PassingTotal(order) ==
    SumSeq([i \in 1..Len(order) |->
               IF PassesFilters(order[i]) THEN order[i].originalTotal ELSE 0])

RECURSIVE SumGross(_, _)
\* the grossRevenue of the buckets of a set of keys
SumGross(data, keys) ==
    IF keys = {} THEN 0
    ELSE LET k == CHOOSE x \in keys : TRUE
         IN data[k].grossRevenue + SumGross(data, keys \ {k})

\* C22: in the product, product type and vendor reports every line item
\* that passes the filters is folded into a bucket, a default one if its
\* product reference, product type or vendor is missing: folding an order
\* raises the sum of grossRevenue over all buckets by the original totals of
\* the order's filter-passing line items.
C22_NothingDropped ==
    [][\A order \in FoldOrders :
          (foldReport # "topProducts" /\ FoldOrder(order)) =>
              SumGross(statData', DOMAIN statData')
                  = SumGross(statData, DOMAIN statData) + PassingTotal(order)
      ]_vars

-----------------------------------------------------------------------------
(* Claims about the shipping cost of an order (SpecShip) *)

InitShip == ShipInit /\ FetchInit /\ DashIdle /\ FoldIdle /\ FeeInit /\ AggIdle /\ NumInit /\ InvIdle
    /\ PlReportInit /\ IndexInit

SpecShip == InitShip /\ [][ShipNext]_vars

\* the loaded row and what the report shows for it
Row == orderData[1]
Shown == enrichedData[1]

\* the overrides whose key equals the row's display name after one leading
\* '#' is stripped from each
MatchingOverrides ==
    {i \in 1..Len(shippingCostData) :
        StripHash(shippingCostData[i].orderId) = StripHash(Row.orderName)}

MatchingCosts == {shippingCostData[i].shippingCost : i \in MatchingOverrides}

\* no authoritative shipping cost: absent, null or not > 0
NoAuthoritativeCost ==
    ~(Row.shippingLineCost.kind = "number" /\ Row.shippingLineCost.value > 0)

\* C8: without an authoritative cost, an override whose key equals the
\* order's display name up to one leading '#' on either side is found: the
\* source is 'csv' and the cost is the override's, also when that cost is 0.
C8_OverrideFound ==
    (orderData # <<>> /\ NoAuthoritativeCost /\ MatchingOverrides # {}) =>
        /\ Shown.shippingSource = "csv"
        /\ Shown.shippingCost \in MatchingCosts

\* an override of cost 0 keyed without '#', an order named with '#', and an
\* estimate configured
C8_Witness ==
    /\ orderData # <<>> /\ NoAuthoritativeCost
    /\ shippingCostData = <<[orderId |-> <<"1", "7">>, shippingCost |-> 0]>>
    /\ Row.orderName = <<"#", "1", "7">>
    /\ shippingSettings.method = "flat"
    /\ Shown = [shippingCost |-> 0, shippingSource |-> "csv"]

\* C9: the source is 'shopify' with the authoritative cost when that is
\* present and > 0, whatever overrides exist; otherwise 'csv' with the
\* override's cost when an override matches, whatever method is configured;
\* otherwise 'estimate' when the method is flat or per-item; otherwise
\* 'none' with cost 0.
C9_Priority ==
    orderData # <<>> =>
        IF ~NoAuthoritativeCost
        THEN Shown = [shippingCost |-> Row.shippingLineCost.value,
                      shippingSource |-> "shopify"]
        ELSE IF MatchingOverrides # {}
        THEN Shown.shippingSource = "csv" /\ Shown.shippingCost \in MatchingCosts
        ELSE IF shippingSettings.method \in {"flat", "per-item"}
        THEN Shown.shippingSource = "estimate"
        ELSE Shown = [shippingCost |-> 0, shippingSource |-> "none"]

\* an authoritative cost wins over a matching override and an estimate
C9_Witness ==
    /\ orderData # <<>> /\ ~NoAuthoritativeCost
    /\ MatchingOverrides # {}
    /\ shippingSettings.method = "per-item"
    /\ Shown.shippingSource = "shopify"

\* C10: at the estimate tier the cost is flatRate for the flat method,
\* perItemRate * itemCount for the per-item method for every itemCount >= 0,
\* and 0 when no method is configured.
C10_EstimateCost ==
    (orderData # <<>> /\ NoAuthoritativeCost /\ MatchingOverrides = {}) =>
        Shown.shippingCost =
            CASE shippingSettings.method = "flat" -> shippingSettings.flatRate
              [] shippingSettings.method = "per-item" ->
                    shippingSettings.perItemRate * Row.itemCount
              [] OTHER -> 0

\* the costs an uploaded row can give
UploadedCosts == {c[1] : c \in CsvCosts \ {None}}

\* C29: after any sequence of uploads the override cost resolved for an
\* order is the cost of the most recently uploaded row that names the order,
\* identifiers that differ only by a leading '#' naming the same order: each
\* upload of a row makes its cost the one resolved for every spelling of the
\* order's name.
C29_LastUploadWins ==
    [][\A id \in OrderIdentifiers, cost \in UploadedCosts :
          (/\ shippingCostData' # shippingCostData
           /\ shippingCostData' =
                 Merge(shippingCostData, [orderId |-> id, shippingCost |-> cost]))
          => \A name \in OrderIdentifiers :
                StripHash(name) = StripHash(id) =>
                    CsvCostOf([orderName |-> name], shippingCostData') = Some(cost)
      ]_vars

-----------------------------------------------------------------------------
(* Claims about the transaction fee of an order (SpecFees) *)

InitFees == FeeInit /\ FetchInit /\ DashIdle /\ FoldIdle /\ ShipInit /\ AggIdle /\ NumInit /\ InvIdle
    /\ PlReportInit /\ IndexInit

SpecFees == InitFees /\ [][FeeNext]_vars

\* the lower-cased gateway name of the rendered row ("" when missing)
FeeGatewayLower ==
    ToLowerCase(IF feeOrder[1].paymentGateway = None THEN <<>>
                ELSE feeOrder[1].paymentGateway[1])

IsPaypal == Includes(FeeGatewayLower, StrPaypal) /\ transactionFeeSettings.paypal.enabled
IsStripe == Includes(FeeGatewayLower, StrStripe) /\ transactionFeeSettings.stripe.enabled
IsShopifyPayments ==
    Includes(FeeGatewayLower, StrShopify) \/ Includes(FeeGatewayLower, StrShopPay)
AddedMatches ==
    {i \in 1..Len(transactionFeeSettings.additionalGateways) :
        Includes(FeeGatewayLower,
                 ToLowerCase(transactionFeeSettings.additionalGateways[i].apiName))}

\* C11: an order matched to PayPal, to Stripe or to a merchant-added gateway
\* pays netRevenue * (matched rate + surcharge) / 100 + the matched fixed fee
\* (a surcharge of 0 adds nothing); an order paid with Shopify Payments pays
\* netRevenue * rate / 100 + fixed fee, without the surcharge; the fixed fee
\* is added once.
C11_Surcharge ==
    feeOrder # None =>
        LET n == feeOrder[1].netRevenue
            s == transactionFeeSettings
        IN /\ IsPaypal =>
                transactionFees[1] =
                    FeeAmount(n, s.paypal.rate, s.shopifySurcharge, s.paypal.fixedFee)
           /\ (~IsPaypal /\ IsStripe) =>
                transactionFees[1] =
                    FeeAmount(n, s.stripe.rate, s.shopifySurcharge, s.stripe.fixedFee)
           /\ (~IsPaypal /\ ~IsStripe /\ IsShopifyPayments) =>
                transactionFees[1] =
                    FeeAmount(n, s.shopifyPayments.rate, 0, s.shopifyPayments.fixedFee)
           /\ (~IsPaypal /\ ~IsStripe /\ ~IsShopifyPayments /\ AddedMatches # {}) =>
                \E i \in AddedMatches :
                    transactionFees[1] =
                        FeeAmount(n, s.additionalGateways[i].rate, s.shopifySurcharge,
                                  s.additionalGateways[i].fixedFee)

\* the gateway name resolves to no configured gateway
Unresolvable ==
    ~IsPaypal /\ ~IsStripe /\ ~IsShopifyPayments /\ AddedMatches = {}

\* C12: for a missing name, 'unknown', a name that matches no configured
\* gateway, or a PayPal / Stripe name while that gateway is disabled and no
\* other gateway matches, the fee is netRevenue * shopifyPayments.rate / 100
\* + shopifyPayments.fixedFee, without surcharge.
C12_Fallback ==
    (feeOrder # None /\ Unresolvable) =>
        transactionFees[1] =
            FeeAmount(feeOrder[1].netRevenue,
                      transactionFeeSettings.shopifyPayments.rate, 0,
                      transactionFeeSettings.shopifyPayments.fixedFee)

\* a PayPal order while PayPal is disabled, a gateway added and a surcharge
\* configured, falls back to the Shopify Payments rate
C12_Witness ==
    /\ feeOrder # None /\ Unresolvable
    /\ feeOrder[1].paymentGateway = Some(<<"P", "a", "y", "P", "a", "l">>)
    /\ feeOrder[1].netRevenue = 10000
    /\ Len(transactionFeeSettings.additionalGateways) > 0
    /\ transactionFeeSettings.shopifySurcharge = 100
    /\ transactionFees = Some(Num(290))

-----------------------------------------------------------------------------
(* Claims about the dashboard's buckets, customers and payload (SpecAgg) *)

InitAgg == AggInit /\ FetchInit /\ DashIdle /\ FoldIdle /\ ShipInit /\ FeeInit /\ NumInit /\ InvIdle
    /\ PlReportInit /\ IndexInit

SpecAgg == InitAgg /\ [][AggNext]_vars

\* the weekly rows of the payload
WeekRows == dashboardPayload[1].chartData
WeekRowsOf(week) == {i \in 1..Len(WeekRows) : WeekRows[i].key = week}
\* the orders that contributed to a week
OrdersOfWeek(week) ==
    {i \in 1..Len(aggOrders) : getWeekNumber(aggOrders[i].createdAt) = week}

\* C13: the weekly chart has a row for every week 1..maxWeek (the current
\* week in 2025, else 53), and a week no order contributed to has orderCount
\* 0 and grossRevenue 0.
C13_WeeksSeeded ==
    dashboardPayload # None =>
        \A week \in 1..(IF now.y = 2025 THEN getWeekNumber(now) ELSE 53) :
            /\ Cardinality(WeekRowsOf(week)) = 1
            /\ OrdersOfWeek(week) = {} =>
                  \A i \in WeekRowsOf(week) :
                      WeekRows[i].orderCount = 0 /\ WeekRows[i].grossRevenue = 0

\* in 2025, week 2 of 2, orders only in week 1 and before: week 2 is there,
\* empty
C13_Witness ==
    /\ dashboardPayload # None
    /\ now = Date(2025, 1, 9)
    /\ Len(aggOrders) = 2
    /\ aggOrders[1].createdAt = Date(2025, 1, 7)
    /\ aggOrders[2].createdAt = Date(2024, 12, 31)
    /\ \E i \in 1..Len(WeekRows) : WeekRows[i].key = 2 /\ WeekRows[i].orderCount = 0


\* the identified customers among the orders, and the guest orders
IdentifiedCustomers ==
    {aggOrders[i].customer : i \in {j \in 1..Len(aggOrders) : Truthy(aggOrders[j].customer)}}
GuestOrders == {i \in 1..Len(aggOrders) : ~Truthy(aggOrders[i].customer)}

\* C16: every guest order is a customer of its own in the lifetime-spend
\* computation: with k guest orders, totalCustomers is the number of
\* identified customers plus k.
C16_GuestsAreSingletons ==
    dashboardPayload # None =>
        dashboardPayload[1].totalCustomers
            = Cardinality(IdentifiedCustomers) + Cardinality(GuestOrders)

\* the lifetime spends of the customers, and those within [min, max) of a bucket
Spends == CustomerSpend(aggOrders)
SpendsIn(i) ==
    {j \in 1..Len(Spends) :
        /\ Spends[j].value >= LtvMin[i]
        /\ i < 7 => Spends[j].value < LtvMin[i + 1]}

\* C17: the LTV buckets kept are a prefix of the seven fixed buckets: the
\* first four always, and bucket i >= 5 exactly when it or a higher bucket
\* has a customer; every customer is counted in exactly one bucket, the one
\* whose [min, max) holds the spend, and the counts sum to the number of
\* distinct customers.
C17_LtvPrefix ==
    ltvData # None =>
        LET kept == ltvData[1]
        IN /\ Len(kept) \in 4..7
           /\ \A p \in 1..Len(kept) : kept[p].bucket = p
           /\ \A i \in 5..7 :
                 i <= Len(kept) <=> \E h \in i..7 : SpendsIn(h) # {}
           /\ \A p \in 1..Len(kept) : kept[p].count = Cardinality(SpendsIn(p))
           /\ \A j \in 1..Len(Spends) :
                 Cardinality({i \in 1..7 : j \in SpendsIn(i)}) = 1
           /\ SumSeq([p \in 1..Len(kept) |-> kept[p].count]) = Len(Spends)

\* a customer who spent 600.00 and nobody between 200 and 500: the empty
\* fifth bucket is kept below the populated sixth; another customer sits on
\* the lower edge of the second bucket
C17_Witness ==
    /\ ltvData # None
    /\ Len(ltvData[1]) = 6
    /\ ltvData[1][5].count = 0
    /\ ltvData[1][6].count = 1
    /\ ltvData[1][2].count = 1
    /\ \E j \in 1..Len(Spends) : Spends[j].value = 2500

\* the customer an order is the first-order candidate of: the customer id, or
\* the guest order itself
BuyerOf(i) ==
    IF Truthy(aggOrders[i].customer) THEN <<aggOrders[i].customer>> ELSE <<"guest", i>>
Buyers == {BuyerOf(i) : i \in 1..Len(aggOrders)}
OrdersOfBuyer(b) == {i \in 1..Len(aggOrders) : BuyerOf(i) = b}
\* the first-arriving order of a buyer among those on the buyer's earliest date
FirstOrderOf(b) ==
    CHOOSE i \in OrdersOfBuyer(b) :
        \A j \in OrdersOfBuyer(b) :
            \/ KeyLess(DayKey(aggOrders[i].createdAt), DayKey(aggOrders[j].createdAt))
            \/ /\ DayKey(aggOrders[i].createdAt) = DayKey(aggOrders[j].createdAt)
               /\ i <= j
\* the first orders that fall on a day, and their discounts
FirstOrdersOn(day) ==
    {i \in 1..Len(aggOrders) :
        i = FirstOrderOf(BuyerOf(i)) /\ DayKey(aggOrders[i].createdAt) = day}
FirstDiscountsOn(day) ==
    SumSeq([i \in 1..Len(aggOrders) |->
               IF i \in FirstOrdersOn(day) THEN aggOrders[i].totalDiscounts ELSE 0])

\* C18: each distinct customer key credits exactly one daily acquisition
\* bucket with one new buyer, the bucket of the customer's earliest order
\* date, with the discount of the first-arriving order on that date; avgCAC
\* is totalDiscounts / newBuyers rounded to cents, and 0 when newBuyers is 0.
C18_FirstOrderCredit ==
    dashboardPayload # None =>
        LET daily == dashboardPayload[1].dailyAcquisitionData
            weekly == dashboardPayload[1].acquisitionData
        IN /\ \A b \in Buyers :
                 Cardinality({p \in 1..Len(daily) :
                     daily[p].key = DayKey(aggOrders[FirstOrderOf(b)].createdAt)}) = 1
           /\ \A p \in 1..Len(daily) :
                 /\ daily[p].newBuyers = Cardinality(FirstOrdersOn(daily[p].key))
                 /\ daily[p].newBuyers > 0
                 /\ daily[p].avgCAC =
                        RoundCents(Frac(FirstDiscountsOn(daily[p].key), daily[p].newBuyers))
           /\ SumSeq([p \in 1..Len(daily) |-> daily[p].newBuyers]) = Cardinality(Buyers)
           /\ \A p \in 1..Len(weekly) : weekly[p].newBuyers = 0 => weekly[p].avgCAC = 0

\* a customer whose two orders fall on the same day with different
\* discounts, the first-arriving one without discount, and week 2 of the
\* weekly acquisition rows without a new buyer
C18_Witness ==
    /\ dashboardPayload # None
    /\ Len(aggOrders) = 2
    /\ aggOrders[1].customer = "c1" /\ aggOrders[2].customer = "c1"
    /\ aggOrders[1].createdAt = aggOrders[2].createdAt
    /\ aggOrders[1].totalDiscounts = 0 /\ aggOrders[2].totalDiscounts = 1000
    /\ Len(dashboardPayload[1].dailyAcquisitionData) = 1
    /\ dashboardPayload[1].dailyAcquisitionData[1].newBuyers = 1
    /\ dashboardPayload[1].dailyAcquisitionData[1].avgCAC = 0
    /\ \E p \in 1..Len(dashboardPayload[1].acquisitionData) :
          dashboardPayload[1].acquisitionData[p].newBuyers = 0

\* the orders of a day and their summed amounts (cents)
OrdersOn(day) == {i \in 1..Len(aggOrders) : DayKey(aggOrders[i].createdAt) = day}
GrossOn(day) ==
    SumSeq([i \in 1..Len(aggOrders) |->
               IF i \in OrdersOn(day)
               THEN aggOrders[i].subtotal + aggOrders[i].totalDiscounts ELSE 0])
DiscountsOn(day) ==
    SumSeq([i \in 1..Len(aggOrders) |->
               IF i \in OrdersOn(day) THEN aggOrders[i].totalDiscounts ELSE 0])
ShippingOn(day) ==
    SumSeq([i \in 1..Len(aggOrders) |->
               IF i \in OrdersOn(day) THEN aggOrders[i].totalShipping ELSE 0])

\* x / 1000 of an amount in cents, as a fraction of a cent
Thousandths(x) == Frac(x, 1000)

\* C19: the waterfall of a row is netRevenue = gross - discounts + shipping,
\* cogs = 40% of (gross - discounts), grossProfit = netRevenue - cogs,
\* cm2 = grossProfit - (5 x orderCount + 2.9% of netRevenue + 0.30 x
\* orderCount), rounded only at emission; one unfiltered order of subtotal
\* 100, discount 10, shipping 5 gives gross 110, net 105, gross profit 65
\* and cm2 56.66.
C19_Waterfall ==
    dashboardPayload # None =>
        LET daily == dashboardPayload[1].dailyChartData
        IN \A p \in 1..Len(daily) :
              LET day == daily[p].key
                  count == Cardinality(OrdersOn(day))
                  net == GrossOn(day) - DiscountsOn(day) + ShippingOn(day)
                  \* cogs is 40% of (gross - discounts): 10 gp = 10 net - 4 (gross - discounts)
                  gp10 == 10 * net - 4 * (GrossOn(day) - DiscountsOn(day))
                  \* 1000 cm2 = 100 (10 gp) - 1000 (500 + 30) count - 29 net
                  cm2 == Thousandths(100 * gp10 - 530000 * count - 29 * net)
              IN /\ daily[p].orderCount = count
                 /\ daily[p].grossRevenue = GrossOn(day)
                 /\ daily[p].netRevenue = net
                 /\ daily[p].grossProfit = RoundCents(Frac(gp10, 10))
                 /\ daily[p].cm2 = RoundCents(cm2)
                 /\ (/\ count = 1
                     /\ GrossOn(day) = 11000 /\ DiscountsOn(day) = 1000
                     /\ ShippingOn(day) = 500)
                    => /\ daily[p].netRevenue = 10500
                       /\ daily[p].grossProfit = 6500
                       /\ daily[p].cm2 = 5666

\* the dashboard of the one order of subtotal 100, discount 10, shipping 5
C19_Witness ==
    /\ dashboardPayload # None
    /\ Len(aggOrders) = 1
    /\ aggOrders[1].subtotal = 10000
    /\ aggOrders[1].totalDiscounts = 1000
    /\ aggOrders[1].totalShipping = 500
    /\ productId \in {NullStr, "all"} /\ productType \in {NullStr, "all"}
    /\ Len(dashboardPayload[1].dailyChartData) = 1
    /\ dashboardPayload[1].dailyChartData[1].grossRevenue = 11000
    /\ dashboardPayload[1].dailyChartData[1].cm2 = 5666

\* C20: COGS is cogsPercent x (pre-discount merchandise gross - discounts)
\* in every report, shipping revenue left out of the basis: for a data set
\* of one order, the P&L period row and the profit-by-order row show the
\* same cogs.
C20_SameCogs ==
    (plData # None /\ orderReport # None /\ Len(aggOrders) = 1) =>
        /\ PlCogs(plData[1][1]) = OrderCogs(orderReport[1][1])
        /\ OrderCogs(orderReport[1][1])
              = Frac(productCostPercent * aggOrders[1].subtotal, 100)

\* C26: every row of the weekly chart has a week number in 1..maxWeek,
\* whatever the creation dates of the orders, and the weekly chart has
\* exactly maxWeek rows.
C26_WeeksInRange ==
    dashboardPayload # None =>
        LET maxWeek == IF now.y = 2025 THEN getWeekNumber(now) ELSE 53
        IN /\ Len(WeekRows) = maxWeek
           /\ \A i \in 1..Len(WeekRows) : WeekRows[i].key \in 1..maxWeek

\* C27: the newBuyers of the weekly acquisition rows and of the daily
\* acquisition rows sum to the same number, the number of distinct customer
\* keys.
C27_SameNewBuyers ==
    dashboardPayload # None =>
        LET daily == dashboardPayload[1].dailyAcquisitionData
            weekly == dashboardPayload[1].acquisitionData
        IN /\ SumSeq([p \in 1..Len(weekly) |-> weekly[p].newBuyers])
                 = SumSeq([p \in 1..Len(daily) |-> daily[p].newBuyers])
           /\ SumSeq([p \in 1..Len(weekly) |-> weekly[p].newBuyers])
                 = Cardinality(Buyers)

-----------------------------------------------------------------------------
(* Claims about the rendered P&L rows (SpecPl) *)

InitPl == PlReportInit /\ IndexInit /\ FetchInit /\ DashIdle /\ FoldIdle /\ ShipInit
    /\ FeeInit /\ AggIdle /\ NumInit /\ InvIdle

SpecPl == InitPl /\ [][PlReportNext]_vars

\* C25: in every P&L period row whose netRevenue is 0, every
\* percent-of-netRevenue field (grossProfitPercent, cm2Percent, cm3Percent,
\* netProfitPercent) is exactly 0.
C25_ZeroRevenueZeroPercent ==
    \A i \in 1..Len(plEnrichedData) :
        plEnrichedData[i].netRevenue = 0 =>
            /\ plEnrichedData[i].grossProfitPercent = 0
            /\ plEnrichedData[i].cm2Percent = 0
            /\ plEnrichedData[i].cm3Percent = 0
            /\ plEnrichedData[i].netProfitPercent = 0

\* C30: in every emitted P&L period row the cent-rounded figures are
\* consistent to the cent: grossProfit = netRevenue - cogs,
\* cm2 = grossProfit - fulfillmentCost, cm3 = cm2 - adSpendPerPeriod and
\* netProfit = cm3 - opexPerPeriod.
C30_RowsConsistent ==
    \A i \in 1..Len(plEnrichedData) :
        LET e == plEnrichedData[i]
        IN /\ e.grossProfit = e.netRevenue - e.cogs
           /\ e.cm2 = e.grossProfit - e.fulfillmentCost
           /\ e.cm3 = e.cm2 - e.adSpendPerPeriod
           /\ e.netProfit = e.cm3 - e.opexPerPeriod

-----------------------------------------------------------------------------
(* Claims about the dashboard's fetchers and lifts (SpecIndex) *)

InitIndex == IndexInit /\ PlReportInit /\ FetchInit /\ DashIdle /\ FoldIdle /\ ShipInit
    /\ FeeInit /\ AggIdle /\ NumInit /\ InvIdle

SpecIndex == InitIndex /\ [][IndexNext]_vars

\* C21: whenever the comparison fetch was skipped because the range spans
\* several years, or it has failed or returned no data, the lift handed to
\* the metric cards is undefined, never a number such as 0 or 100.
C21_LiftNotApplicable ==
    (\/ isMultiYear(selectedStartDate, selectedEndDate)
     \/ comparisonFetcher.state = "idle" /\ comparisonData = None)
        => RevenueLift = None

\* C28: a lift is only ever computed from a current-period payload and a
\* comparison payload that answer requests with the same filters and date
\* ranges exactly one year apart, whatever the order of the changes of the
\* selection and of the completions of the two fetches.
C28_LiftFromMatchingPayloads ==
    (dashboardData # None /\ comparisonData # None /\ RevenueLift # None) =>
        LET current == dashboardData[1].request
            comp == getComparisonDates(current.startDate, current.endDate)
        IN comparisonData[1].request
              = Submission(current.productId, comp.compStartDate, comp.compEndDate)

-----------------------------------------------------------------------------
(* Claims about the dashboard's rows in the program's own numbers (SpecNum) *)

InitNum == NumInit /\ FetchInit /\ DashIdle /\ FoldIdle /\ ShipInit /\ FeeInit /\ AggIdle /\ InvIdle
    /\ PlReportInit /\ IndexInit

SpecNum == InitNum /\ [][NumNext]_vars

\* the orders in another arrival order
Permuted(orders, f) == [i \in 1..Len(orders) |-> orders[f[i]]]

RECURSIVE NumBucketFrom(_, _, _)
\* the bucket after the main loop has passed orders[i..]
NumBucketFrom(orders, i, bucket) ==
    IF i > Len(orders) THEN bucket
    ELSE NumBucketFrom(orders, i + 1, NumAccumulated(bucket, orders[i]))

\* C14: for any two arrival orders (permutations) of the same orders the
\* emitted row of a week is identical.  (That the rows are emitted in
\* ascending key order is not in question.)
C14_ArrivalOrder ==
    numRow # None =>
        \A f \in Permutations(1..Len(numOrders)) :
            NumChartRow(NumBucketFrom(Permuted(numOrders, f), 1, NumZeroBucket))
                = numRow[1]

-----------------------------------------------------------------------------
(* Claims about two invocations in flight (SpecInv) *)

InitInv == InvInit /\ FetchInit /\ DashIdle /\ FoldIdle /\ ShipInit /\ FeeInit /\ AggIdle /\ NumInit
    /\ PlReportInit /\ IndexInit

SpecInv == InitInv /\ [][InvNext]_vars

RECURSIVE Concat(_)
\* the orders of the pages of a query, in page order
Concat(ps) == IF ps = <<>> THEN <<>> ELSE Head(ps) \o Concat(Tail(ps))

\* the payload an invocation returns when it runs alone
Alone(query) == PayloadOf(Concat(orderFeed[query]))

\* C15: no accumulator is carried between or shared among invocations: an
\* invocation returns the payload it would return alone, however the two
\* are interleaved at their page awaits, and the same request run twice
\* returns the same totals.
C15_Isolated ==
    /\ \A i \in Invocations :
          invResponse[i] # None => invResponse[i][1] = Alone(invQuery[i])
    /\ \A i, j \in Invocations :
          (invResponse[i] # None /\ invResponse[j] # None /\ invQuery[i] = invQuery[j])
              => invResponse[i] = invResponse[j]

\* both invocations have returned, after steps of one were taken while the
\* other was between its pages, on different periods with different orders
C15_Witness ==
    /\ invOverlap
    /\ invResponse[1] # None /\ invResponse[2] # None
    /\ invQuery[1] # invQuery[2]
    /\ Len(orderFeed["primary"]) = 3 /\ Len(orderFeed["comparison"]) = 2
    /\ invResponse[1][1].totalOrders = 3
    /\ invResponse[2][1].totalOrders = 2

=============================================================================
